---- MODULE Spec2Model ----
(***************************************************************************)
(* Model of the measurement tool of the editing client:                    *)
(*   src/editingClient/src/gui/desktop/MeasureMenuController.ts            *)
(*   src/editingClient/src/gui/MeasurementPlateObject.ts                   *)
(*                                                                         *)
(* One controller (one client).  The variables are the controller's        *)
(* fields, the heap of MeasurementPlateObject instances the two maps       *)
(* refer to, the meshes left in the scene, and the requests the last       *)
(* handler sent.  SpecRelay runs two such controllers, kept as records,    *)
(* against a server that relays every request to both.                     *)
(*                                                                         *)
(* Conventions                                                             *)
(*  - null / undefined is the record NULL.                                 *)
(*  - a Vector3 is a record [x, y, z] of integers.                         *)
(*  - a distance is kept as its square (the squared Euclidean norm):       *)
(*    squaring is injective on the non-negative reals, so two distances    *)
(*    are equal exactly when their squares are.                            *)
(*  - handlers are operators from a controller state (the record St of     *)
(*    all variables) to the state after the handler; an action applies     *)
(*    one handler to an input.                                             *)
(*  - diag, raised and transportFails are fields of that record only:      *)
(*    what a handler logged, whether an exception left it, and whether     *)
(*    SocketHandler.SendData throws while it runs.                         *)
(*  - of a mesh the state keeps that it exists, and of an endpoint         *)
(*    collider its position and metadata; the geometry of lines and        *)
(*    labels is not part of the state.                                     *)
(*  - looks holds the colours and the rendering group of each plate's      *)
(*    line and colliders.  No handler reads them, so Spec, SpecSentinel,   *)
(*    SpecTransport and SpecRelay do not follow them (followLooks is       *)
(*    FALSE and looks stays empty); SpecHighlight does.                    *)
(***************************************************************************)
EXTENDS Integers, Sequences, FiniteSets, TLC

VARIABLES
    pointerObserver,        \* scene.onPointerObservable observer registered
    beforeRenderObserver,   \* scene.onBeforeRenderObservable observer registered
    keyListeners,           \* number of "keydown" listeners on window
    currentActionState,     \* ActionStates: "None" | "Add" | "Remove"
    startPoint,             \* create-drag: remembered start point
    currentLine,            \* create-drag: preview line
    dynamicTextMesh,        \* create-drag: preview label
    isDraggingMeasurement,
    lastValidPickedPoint,
    isMovingPoint,
    selectedMeasurementId,
    selectedPointType,
    selectedPlateObject,    \* reference into heap
    fixedPoint,
    movePreviewLine,
    movePreviewText,
    hoveredMeasurementId,
    hoveredPointType,
    measurementsList,       \* Map<number, MeasurementPlateObject>: id -> reference
    plateObjects,           \* Map<number, MeasurementPlateObject>: id -> reference
    heap,                   \* reference -> MeasurementPlateObject
    orphans,                \* visuals left in the scene that no plate refers to
    sent,                   \* requests handed to SocketHandler.SendData by the last step
    looks,                  \* reference -> colours and rendering group of the plate's meshes
    followLooks,            \* whether looks is followed (SpecHighlight)
    \* two clients and a relay server (SpecRelay)
    clients,                \* client -> controller state
    toServer,               \* client -> requests sent and not yet at the server
    inbox,                  \* client -> broadcasts not yet delivered to it
    nextId,                 \* the id the server gives to the next Create
    requests                \* number of sends attempted so far

relayVars == << clients, toServer, inbox, nextId, requests >>

vars == << pointerObserver, beforeRenderObserver, keyListeners, currentActionState,
           startPoint, currentLine, dynamicTextMesh, isDraggingMeasurement,
           lastValidPickedPoint, isMovingPoint, selectedMeasurementId,
           selectedPointType, selectedPlateObject, fixedPoint, movePreviewLine,
           movePreviewText, hoveredMeasurementId, hoveredPointType,
           measurementsList, plateObjects, heap, orphans, sent, looks,
           followLooks, relayVars >>

-----------------------------------------------------------------------------
(* Bounds *)

\* server-assigned ids are 1..MaxId
MaxId == 1
\* the points a pick or a message can carry are Point(0) .. Point(NumPoints-1)
NumPoints == 2
\* EnableMeasuring is not taken once this many keydown listeners are registered
MaxKeyListeners == 2
\* SpecRelay: the two clients together attempt at most this many sends
MaxRequests == 2
\* a cancel that would leave a further set of visuals in the scene is not taken
\* once this many are left
MaxOrphans == 0

\* null / undefined, for fields that hold an object
NULL == [ null |-> TRUE ]

\* null, for the fields typed "start" | "end" | null
NoPointType == "null"

\* a reference to a MeasurementPlateObject
Ref(n) == [ ref |-> n ]

Point(i) == [x |-> i, y |-> 2 * i, z |-> 0 - i]

Points == { Point(i) : i \in 0 .. (NumPoints - 1) }

\* the id a Create request carries
PlaceholderId == 0 - 1

\* the ids an inbound broadcast carries
ServerIds == 0 .. MaxId

SentinelIds == { PlaceholderId } \cup ServerIds

-----------------------------------------------------------------------------
(* Vector3 *)

Sq(n) == n * n

\* Vector3.Distance(a, b), squared
Distance(a, b) == Sq(a.x - b.x) + Sq(a.y - b.y) + Sq(a.z - b.z)

-----------------------------------------------------------------------------
(* The controller state as one record *)

St == [ pointerObserver |-> pointerObserver,
        beforeRenderObserver |-> beforeRenderObserver,
        keyListeners |-> keyListeners,
        currentActionState |-> currentActionState,
        startPoint |-> startPoint,
        currentLine |-> currentLine,
        dynamicTextMesh |-> dynamicTextMesh,
        isDraggingMeasurement |-> isDraggingMeasurement,
        lastValidPickedPoint |-> lastValidPickedPoint,
        isMovingPoint |-> isMovingPoint,
        selectedMeasurementId |-> selectedMeasurementId,
        selectedPointType |-> selectedPointType,
        selectedPlateObject |-> selectedPlateObject,
        fixedPoint |-> fixedPoint,
        movePreviewLine |-> movePreviewLine,
        movePreviewText |-> movePreviewText,
        hoveredMeasurementId |-> hoveredMeasurementId,
        hoveredPointType |-> hoveredPointType,
        measurementsList |-> measurementsList,
        plateObjects |-> plateObjects,
        heap |-> heap,
        orphans |-> orphans,
        sent |-> sent,
        looks |-> looks,
        followLooks |-> followLooks,
        diag |-> {},
        raised |-> FALSE,
        transportFails |-> FALSE ]

\* a function with one more (or one overwritten) entry: Map.set
MapSet(m, k, v) == [ i \in (DOMAIN m) \cup {k} |-> IF i = k THEN v ELSE m[i] ]

\* a function without an entry: Map.delete
MapDelete(m, k) == [ i \in (DOMAIN m) \ {k} |-> m[i] ]

EmptyMap == [ i \in {} |-> NULL ]

\* the references the program can still reach: garbage is dropped from heap
\* (the scene holds the meshes, and a collider's metadata refers to its plate)
Reachable(s) ==
    { s.measurementsList[i] : i \in DOMAIN s.measurementsList }
      \cup { s.plateObjects[i] : i \in DOMAIN s.plateObjects }
      \cup { o.plate : o \in s.orphans }
      \cup { r \in DOMAIN s.heap : s.heap[r].startPointCollider # NULL
                                     \/ s.heap[r].endPointCollider # NULL }
      \cup (IF s.selectedPlateObject = NULL THEN {} ELSE { s.selectedPlateObject })

Collect(s) ==
    [ s EXCEPT !.heap = [ r \in Reachable(s) |-> s.heap[r] ],
               !.looks = [ r \in Reachable(s) \cap DOMAIN s.looks |-> s.looks[r] ] ]

\* a fresh reference: new MeasurementPlateObject(...)
NewRef(h) ==
    LET free == { n \in 1 .. (Cardinality(DOMAIN h) + 1) : Ref(n) \notin DOMAIN h }
    IN  Ref(CHOOSE n \in free : \A m \in free : n <= m)

Log(s, d) == [ s EXCEPT !.diag = @ \cup {d} ]

-----------------------------------------------------------------------------
(* MeasurementPlateObject *)

\* constructor
NewPlate(id, sp, ep, d) ==
    [ measurement_instance_id |-> id,
      startPoint |-> sp,
      endPoint |-> ep,
      distanceMeasured |-> d,
      line |-> NULL,
      textMesh |-> NULL,
      startPointCollider |-> NULL,
      endPointCollider |-> NULL ]

\* a mesh in the scene
Mesh(name) == [ mesh |-> name ]

\* CreatePlate: the dashed line and the label
CreatePlate(p) ==
    [ p EXCEPT !.line = Mesh("measureLine"),
               !.textMesh = Mesh("textPlane") ]

\* CreateStartSphere: r is the reference of p (metadata.measurementPlate = this)
CreateStartSphere(r, p) ==
    [ p EXCEPT !.startPointCollider =
        [ position |-> p.startPoint,
          metadata |-> [ measurementPlate |-> r, pointType |-> "start",
                         measurementId |-> p.measurement_instance_id ] ] ]

CreateEndSphere(r, p) ==
    [ p EXCEPT !.endPointCollider =
        [ position |-> p.endPoint,
          metadata |-> [ measurementPlate |-> r, pointType |-> "end",
                         measurementId |-> p.measurement_instance_id ] ] ]

HasVisuals(p) ==
    \/ p.line # NULL
    \/ p.textMesh # NULL
    \/ p.startPointCollider # NULL
    \/ p.endPointCollider # NULL

\* the meshes of p as they stay in the scene when p's fields are overwritten
\* without a dispose
Visuals(r, p) ==
    [ plate |-> r, line |-> p.line, textMesh |-> p.textMesh,
      startPointCollider |-> p.startPointCollider,
      endPointCollider |-> p.endPointCollider ]

\* the look of meshes just created: CreateDashedLines assigns the line no
\* colour, the sphere materials get colors_point_default, and all three are in
\* the worldSpace rendering group
CreatedLook ==
    [ line |-> "created",
      start |-> "colors_point_default",
      end |-> "colors_point_default",
      renderingGroupId |-> "worldSpace" ]

\* the look of the meshes of the plate r; looks keeps the ones that differ from
\* CreatedLook
Look(s, r) == IF r \in DOMAIN s.looks THEN s.looks[r] ELSE CreatedLook

SetLook(s, r, look) ==
    IF ~s.followLooks THEN s
    ELSE [ s EXCEPT !.looks = IF look = CreatedLook THEN MapDelete(@, r)
                              ELSE MapSet(@, r, look) ]

\* plateObject.line.color = color, if (plateObject.line)
SetLineColor(s, r, color) ==
    IF s.heap[r].line = NULL THEN s
    ELSE SetLook(s, r, [ Look(s, r) EXCEPT !.line = color ])

\* SetPointColor
SetPointColor(s, r, pointType, color) ==
    IF pointType = "start"
    THEN IF s.heap[r].startPointCollider = NULL THEN s
         ELSE SetLook(s, r, [ Look(s, r) EXCEPT !.start = color ])
    ELSE IF s.heap[r].endPointCollider = NULL THEN s
         ELSE SetLook(s, r, [ Look(s, r) EXCEPT !.end = color ])

\* SetColor: the line and both colliders
SetColor(s, r, color) ==
    SetPointColor(SetPointColor(SetLineColor(s, r, color), r, "start", color),
                  r, "end", color)

\* SetRenderingGroup: the line and both colliders, which exist together
SetRenderingGroup(s, r, renderingGroupId) ==
    IF s.heap[r].line = NULL /\ s.heap[r].startPointCollider = NULL
         /\ s.heap[r].endPointCollider = NULL
    THEN s
    ELSE SetLook(s, r, [ Look(s, r) EXCEPT !.renderingGroupId = renderingGroupId ])

\* InitPlate on the plate s.heap[r]: creates the meshes and assigns the fields;
\* meshes the fields held before are not disposed and stay in the scene
InitPlate(s, r) ==
    LET p == s.heap[r]
        q == CreateEndSphere(r, CreateStartSphere(r, CreatePlate(p)))
    IN  SetLook([ s EXCEPT !.heap = [ @ EXCEPT ![r] = q ],
                           !.orphans = IF HasVisuals(p) THEN @ \cup { Visuals(r, p) }
                                       ELSE @ ],
                r, CreatedLook)

\* UpdateMeasurement: stores the points, recomputes the distance, disposes the
\* old meshes and creates new ones
UpdateMeasurement(s, r, sp, ep) ==
    LET p == [ s.heap[r] EXCEPT !.startPoint = sp,
                                !.endPoint = ep,
                                !.distanceMeasured = Distance(sp, ep) ]
        q == CreateEndSphere(r, CreateStartSphere(r, CreatePlate(p)))
    IN  SetLook([ s EXCEPT !.heap = [ @ EXCEPT ![r] = q ] ], r, CreatedLook)

\* ClearGUI: disposes line, label and both colliders
ClearGUI(s, r) ==
    SetLook([ s EXCEPT !.heap = [ @ EXCEPT ![r] =
                [ @ EXCEPT !.line = NULL, !.textMesh = NULL,
                           !.startPointCollider = NULL, !.endPointCollider = NULL ] ] ],
            r, CreatedLook)

-----------------------------------------------------------------------------
(* Requests to the server *)

\* SocketHandler.SendData(code, data): the request is handed to the transport
SendData(s, msg) == [ s EXCEPT !.sent = Append(@, msg) ]

\* variant: the send is not wrapped in try/catch, the transport's error leaves
\* the handler
TrySendData_Uncaught(s, msg, error) ==
    IF s.transportFails THEN [ s EXCEPT !.raised = TRUE ] ELSE SendData(s, msg)

\* the try/catch around SocketHandler.SendData: when the transport throws
\* (s.transportFails) the error is logged and the request is gone
TrySendData(s, msg, error) ==
    IF s.transportFails THEN Log(s, error) ELSE SendData(s, msg)

CreateRequest(id, sp, ep, d) ==
    [ type |-> "Create", measurement_instance_id |-> id,
      startPoint |-> sp, endPoint |-> ep, distanceMeasured |-> d ]

UpdateRequest(id, sp, ep, d) ==
    [ type |-> "Update", measurement_instance_id |-> id,
      startPoint |-> sp, endPoint |-> ep, distanceMeasured |-> d ]

DeleteRequest(id) == [ type |-> "Delete", measurement_instance_id |-> id ]

SendCreateNewMeasurementRequestToServer(s, sendData) ==
    TrySendData(s, sendData, "Error sending measurement to server")

SendUpdateMeasurementRequestToServer(s, sendData) ==
    TrySendData(s, sendData, "Error sending measurement update to server")

SendDeleteMeasurementRequestToServer(s, measurementId) ==
    TrySendData(s, DeleteRequest(measurementId),
                "Error sending measurement deletion to server")

-----------------------------------------------------------------------------
(* Action state *)

\* SetMeasurementColor: the line and both colliders of a stored plate
SetMeasurementColor(s, measurementId, colorHex) ==
    IF measurementId \in DOMAIN s.plateObjects
    THEN SetColor(s, s.plateObjects[measurementId], colorHex)
    ELSE s

\* SetActionState: the hover id is dropped when the new state is not Remove;
\* hoveredPointType and the rendering group are left as they are
SetActionState(s, state) ==
    LET s1 == [ s EXCEPT !.currentActionState = state ]
    IN  IF s1.currentActionState # "Remove" /\ s1.hoveredMeasurementId # PlaceholderId
        THEN [ SetMeasurementColor(s1, s1.hoveredMeasurementId, "colors_default")
                 EXCEPT !.hoveredMeasurementId = PlaceholderId ]
        ELSE s1

\* variant: the button always selects Add
OnCreateButtonDown_AlwaysAdd(s) == SetActionState(s, "Add")

\* the Measurement_Create button's onPointerDown
OnCreateButtonDown(s) ==
    SetActionState(s, IF s.currentActionState = "Add" THEN "None" ELSE "Add")

\* the Measurement_Delete button's onPointerDown
OnDeleteButtonDown(s) ==
    SetActionState(s, IF s.currentActionState = "Remove" THEN "None" ELSE "Remove")

ToggleDeleteMode(s) ==
    SetActionState(s, IF s.currentActionState = "Remove" THEN "None" ELSE "Remove")

\* variant: the entity is also dropped locally before the server answers
DeleteMeasurement_PreApplied(s, measurementId) ==
    IF measurementId = PlaceholderId
    THEN Log(s, "No measurement to delete")
    ELSE [ SendDeleteMeasurementRequestToServer(s, measurementId) EXCEPT
             !.measurementsList = MapDelete(@, measurementId),
             !.plateObjects = MapDelete(@, measurementId) ]

DeleteMeasurement(s, measurementId) ==
    IF measurementId = PlaceholderId
    THEN Log(s, "No measurement to delete")
    ELSE SendDeleteMeasurementRequestToServer(s, measurementId)

ClearMovePreview(s) == [ s EXCEPT !.movePreviewLine = NULL, !.movePreviewText = NULL ]

-----------------------------------------------------------------------------
(* Create-drag *)

StartNewMeasurement(s, pickedPoint) ==
    [ s EXCEPT !.startPoint = pickedPoint,
               !.currentLine = Mesh("measureLine") ]

\* variant: the request carries the end point twice
CompleteMeasurement_StartIsEnd(s, endPoint) ==
    LET distance == Distance(s.startPoint, endPoint)
        s1 == SendCreateNewMeasurementRequestToServer(
                  s, CreateRequest(PlaceholderId, endPoint, endPoint, distance))
    IN  [ s1 EXCEPT !.selectedMeasurementId = PlaceholderId,
                    !.dynamicTextMesh = NULL,
                    !.startPoint = NULL,
                    !.currentLine = NULL ]

CompleteMeasurement(s, endPoint) ==
    LET distance == Distance(s.startPoint, endPoint)
        s1 == SendCreateNewMeasurementRequestToServer(
                  s, CreateRequest(PlaceholderId, s.startPoint, endPoint, distance))
    IN  [ s1 EXCEPT !.selectedMeasurementId = PlaceholderId,
                    !.dynamicTextMesh = NULL,
                    !.startPoint = NULL,
                    !.currentLine = NULL ]

\* variant: the cancel disposes the preview and keeps the start point
CancelMeasurementCreation_KeepStart(s) ==
    [ s EXCEPT !.currentLine = NULL, !.dynamicTextMesh = NULL ]

CancelMeasurementCreation(s) ==
    [ s EXCEPT !.currentLine = NULL, !.dynamicTextMesh = NULL, !.startPoint = NULL ]

UpdateMeasuringDisplay(s, pickedPoint) ==
    IF s.startPoint = NULL THEN s
    ELSE [ s EXCEPT !.currentLine = Mesh("measureLine"),
                    !.dynamicTextMesh = Mesh("textPlane") ]

-----------------------------------------------------------------------------
(* Point-move *)

StartMovingPoint(s, plateObject, pointType, measurementId) ==
    LET p == s.heap[plateObject]
        s1 == [ s EXCEPT !.isMovingPoint = TRUE,
                         !.selectedPlateObject = plateObject,
                         !.selectedPointType = pointType,
                         !.selectedMeasurementId = measurementId,
                         !.fixedPoint = IF pointType = "start" THEN p.endPoint
                                        ELSE p.startPoint ]
    IN  ClearGUI(SetColor(s1, plateObject, "colors_hover"), plateObject)

UpdateMovePreview(s, newPosition) ==
    IF s.fixedPoint = NULL THEN s
    ELSE [ ClearMovePreview(s) EXCEPT
             !.movePreviewLine = Mesh("movePreviewLine"),
             !.movePreviewText = Mesh("textPlane") ]

\* the metadata.measurementId assignments that follow an UpdateMeasurement
SetColliderIds(s, r, id) ==
    LET p == s.heap[r]
        sc == IF p.startPointCollider = NULL THEN NULL
              ELSE [ p.startPointCollider EXCEPT !.metadata.measurementId = id ]
        ec == IF p.endPointCollider = NULL THEN NULL
              ELSE [ p.endPointCollider EXCEPT !.metadata.measurementId = id ]
    IN  [ s EXCEPT !.heap = [ @ EXCEPT ![r] =
            [ p EXCEPT !.startPointCollider = sc, !.endPointCollider = ec ] ] ]

\* UpdateExistingMeasurement: writes the new points into the stored entity,
\* rebuilds its visuals and sends the Update request
UpdateExistingMeasurement(s, measurementId, newStartPoint, newEndPoint) ==
    IF measurementId \notin DOMAIN s.plateObjects
         \/ measurementId \notin DOMAIN s.measurementsList
    THEN Log(s, "Measurement not found")
    ELSE
      LET plateObject == s.plateObjects[measurementId]
          measurementData == s.measurementsList[measurementId]
          distance == Distance(newStartPoint, newEndPoint)
          s1 == [ s EXCEPT !.heap = [ @ EXCEPT ![measurementData] =
                    [ @ EXCEPT !.startPoint = newStartPoint,
                               !.endPoint = newEndPoint,
                               !.distanceMeasured = distance ] ] ]
          s2 == UpdateMeasurement(s1, plateObject, newStartPoint, newEndPoint)
          s3 == SetColliderIds(s2, plateObject, measurementId)
      IN  SendUpdateMeasurementRequestToServer(
              s3, UpdateRequest(measurementId, newStartPoint, newEndPoint, distance))

ResetSelection(s) ==
    [ s EXCEPT !.isMovingPoint = FALSE,
               !.selectedPlateObject = NULL,
               !.selectedPointType = NoPointType,
               !.selectedMeasurementId = PlaceholderId,
               !.fixedPoint = NULL ]

\* variant: the final position goes to the role that was not picked
CompleteMove_Swapped(s, finalPosition) ==
    IF s.selectedPlateObject = NULL \/ s.selectedPointType = NoPointType
         \/ s.fixedPoint = NULL
    THEN s
    ELSE
      LET newStartPoint == IF s.selectedPointType = "start" THEN s.fixedPoint
                           ELSE finalPosition
          newEndPoint == IF s.selectedPointType = "start" THEN finalPosition
                         ELSE s.fixedPoint
          s1 == UpdateExistingMeasurement(s, s.selectedMeasurementId,
                                          newStartPoint, newEndPoint)
      IN  ResetSelection(ClearMovePreview(s1))

CompleteMove(s, finalPosition) ==
    IF s.selectedPlateObject = NULL \/ s.selectedPointType = NoPointType
         \/ s.fixedPoint = NULL
    THEN s
    ELSE
      LET newStartPoint == IF s.selectedPointType = "start" THEN finalPosition
                           ELSE s.fixedPoint
          newEndPoint == IF s.selectedPointType = "start" THEN s.fixedPoint
                         ELSE finalPosition
          s1 == UpdateExistingMeasurement(s, s.selectedMeasurementId,
                                          newStartPoint, newEndPoint)
      IN  ResetSelection(ClearMovePreview(s1))

\* variant: the cancel leaves the selected id in place
CancelMoveOperation_KeepId(s) ==
    IF s.selectedPlateObject = NULL THEN s
    ELSE [ ResetSelection(ClearMovePreview(InitPlate(s, s.selectedPlateObject)))
             EXCEPT !.selectedMeasurementId = s.selectedMeasurementId ]

CancelMoveOperation(s) ==
    IF s.selectedPlateObject = NULL THEN s
    ELSE ResetSelection(ClearMovePreview(InitPlate(s, s.selectedPlateObject)))

-----------------------------------------------------------------------------
(* Picking: scene.pick(pointerX, pointerY) *)

Miss == [ hit |-> FALSE, pickedPoint |-> NULL, pickedMesh |-> NULL ]

\* a hit on a mesh that carries no measurement metadata
SurfacePick(p) == [ hit |-> TRUE, pickedPoint |-> p, pickedMesh |-> NULL ]

\* a hit on an endpoint collider
ColliderPick(c) == [ hit |-> TRUE, pickedPoint |-> c.position, pickedMesh |-> c ]

\* the endpoint colliders in the scene: those of the plates, and those left behind
SceneColliders(s) ==
    { s.heap[r].startPointCollider : r \in { q \in DOMAIN s.heap :
                                              s.heap[q].startPointCollider # NULL } }
      \cup { s.heap[r].endPointCollider : r \in { q \in DOMAIN s.heap :
                                                  s.heap[q].endPointCollider # NULL } }
      \cup { o.startPointCollider : o \in s.orphans }
      \cup { o.endPointCollider : o \in s.orphans }

Picks(s) == { Miss } \cup { SurfacePick(p) : p \in Points }
                     \cup { ColliderPick(c) : c \in SceneColliders(s) }

ValidPick(pk) == pk.hit /\ pk.pickedPoint # NULL

\* metadata.measurementPlate && metadata.pointType && metadata.measurementId
EndpointPick(pk) ==
    /\ pk.pickedMesh # NULL
    /\ pk.pickedMesh.metadata.measurementId # 0

-----------------------------------------------------------------------------
(* Pointer handlers *)

\* variant: a drag starts whether or not one is in progress
HandlePointerDown_Restart(s, left, pk) ==
    IF ~left THEN s
    ELSE IF ~ValidPick(pk) THEN s
    ELSE IF s.currentActionState = "Remove" /\ s.hoveredMeasurementId # PlaceholderId
         THEN DeleteMeasurement(s, s.hoveredMeasurementId)
    ELSE IF s.currentActionState = "Remove" THEN s
    ELSE IF EndpointPick(pk)
         THEN StartMovingPoint(s, pk.pickedMesh.metadata.measurementPlate,
                               pk.pickedMesh.metadata.pointType,
                               pk.pickedMesh.metadata.measurementId)
    ELSE IF s.currentActionState = "Add"
         THEN [ StartNewMeasurement(s, pk.pickedPoint) EXCEPT
                  !.isDraggingMeasurement = TRUE ]
    ELSE s

\* variant: Remove mode is looked at before the pick
HandlePointerDown_DeleteBeforePick(s, left, pk) ==
    IF ~left THEN s
    ELSE IF s.currentActionState = "Remove" /\ s.hoveredMeasurementId # PlaceholderId
         THEN DeleteMeasurement(s, s.hoveredMeasurementId)
    ELSE IF ~ValidPick(pk) THEN s
    ELSE IF s.currentActionState = "Remove" THEN s
    ELSE IF EndpointPick(pk)
         THEN StartMovingPoint(s, pk.pickedMesh.metadata.measurementPlate,
                               pk.pickedMesh.metadata.pointType,
                               pk.pickedMesh.metadata.measurementId)
    ELSE IF s.currentActionState = "Add" /\ ~s.isDraggingMeasurement /\ ~s.isMovingPoint
         THEN [ StartNewMeasurement(s, pk.pickedPoint) EXCEPT
                  !.isDraggingMeasurement = TRUE ]
    ELSE s

HandlePointerDown(s, left, pk) ==
    IF ~left THEN s
    ELSE IF ~ValidPick(pk) THEN s
    ELSE IF s.currentActionState = "Remove" /\ s.hoveredMeasurementId # PlaceholderId
         THEN DeleteMeasurement(s, s.hoveredMeasurementId)
    ELSE IF s.currentActionState = "Remove" THEN s
    ELSE IF EndpointPick(pk)
         THEN StartMovingPoint(s, pk.pickedMesh.metadata.measurementPlate,
                               pk.pickedMesh.metadata.pointType,
                               pk.pickedMesh.metadata.measurementId)
    ELSE IF s.currentActionState = "Add" /\ ~s.isDraggingMeasurement /\ ~s.isMovingPoint
         THEN [ StartNewMeasurement(s, pk.pickedPoint) EXCEPT
                  !.isDraggingMeasurement = TRUE ]
    ELSE s

\* the point a PointerUp or a tick works with: the pick, else the last valid one
PointToUse(s, pk) == IF ValidPick(pk) THEN pk.pickedPoint ELSE s.lastValidPickedPoint

\* variant: a missed pick cancels, the last valid point is not used
HandlePointerUp_NoFallback(s, left, pk) ==
    IF ~left THEN s
    ELSE IF s.isMovingPoint /\ s.selectedPlateObject # NULL
              /\ s.selectedPointType # NoPointType
         THEN IF ValidPick(pk)
              THEN CompleteMove(s, pk.pickedPoint)
              ELSE CancelMoveOperation(s)
    ELSE IF s.isDraggingMeasurement /\ s.startPoint # NULL
         THEN [ (IF ValidPick(pk)
                 THEN CompleteMeasurement(s, pk.pickedPoint)
                 ELSE CancelMeasurementCreation(s))
                EXCEPT !.isDraggingMeasurement = FALSE ]
    ELSE s

HandlePointerUp(s, left, pk) ==
    IF ~left THEN s
    ELSE IF s.isMovingPoint /\ s.selectedPlateObject # NULL
              /\ s.selectedPointType # NoPointType
         THEN IF PointToUse(s, pk) # NULL
              THEN CompleteMove(s, PointToUse(s, pk))
              ELSE CancelMoveOperation(s)
    ELSE IF s.isDraggingMeasurement /\ s.startPoint # NULL
         THEN [ (IF PointToUse(s, pk) # NULL
                 THEN CompleteMeasurement(s, PointToUse(s, pk))
                 ELSE CancelMeasurementCreation(s))
                EXCEPT !.isDraggingMeasurement = FALSE ]
    ELSE s

\* the hover bookkeeping of a tick in Remove mode: whole-entity hover
HoverRemove(s, pk) ==
    LET newHoveredId == IF pk.hit /\ pk.pickedMesh # NULL
                        THEN pk.pickedMesh.metadata.measurementId
                        ELSE PlaceholderId
        s1 == IF s.hoveredMeasurementId # PlaceholderId
              THEN SetMeasurementColor(s, s.hoveredMeasurementId, "colors_default")
              ELSE s
        s2 == IF newHoveredId # PlaceholderId
              THEN SetMeasurementColor(s1, newHoveredId, "colors_delete")
              ELSE s1
    IN  IF newHoveredId # s.hoveredMeasurementId
        THEN [ s2 EXCEPT !.hoveredMeasurementId = newHoveredId ]
        ELSE s

\* the hover bookkeeping of a tick outside Remove mode: entity and endpoint
HoverEndpoint(s, pk) ==
    LET isEndpoint == pk.hit /\ EndpointPick(pk)
        newHoveredId == IF isEndpoint THEN pk.pickedMesh.metadata.measurementId
                        ELSE PlaceholderId
        newHoveredPointType == IF isEndpoint THEN pk.pickedMesh.metadata.pointType
                               ELSE NoPointType
        s1 == IF s.hoveredMeasurementId # PlaceholderId
                   /\ s.hoveredMeasurementId \in DOMAIN s.plateObjects
              THEN LET prevPlateObject == s.plateObjects[s.hoveredMeasurementId]
                       a == SetLineColor(s, prevPlateObject, "colors_default")
                       b == IF s.hoveredPointType # NoPointType
                            THEN SetPointColor(a, prevPlateObject, s.hoveredPointType,
                                               "colors_point_default")
                            ELSE a
                   IN  SetRenderingGroup(b, prevPlateObject, "worldSpace")
              ELSE s
        s2 == IF newHoveredId # PlaceholderId /\ newHoveredPointType # NoPointType
                   /\ newHoveredId \in DOMAIN s1.plateObjects
              THEN LET plateObject == s1.plateObjects[newHoveredId]
                   IN  SetRenderingGroup(
                           SetPointColor(
                               SetLineColor(s1, plateObject, "colors_hover"),
                               plateObject, newHoveredPointType, "colors_hover"),
                           plateObject, "highlights")
              ELSE s1
    IN  IF newHoveredId # s.hoveredMeasurementId
             \/ newHoveredPointType # s.hoveredPointType
        THEN [ s2 EXCEPT !.hoveredMeasurementId = newHoveredId,
                         !.hoveredPointType = newHoveredPointType ]
        ELSE s

\* HandlePointerMove runs before every render
HandlePointerMove(s, pk) ==
    IF s.currentActionState = "Remove" THEN HoverRemove(s, pk)
    ELSE
      LET s1 == IF ~s.isMovingPoint /\ ~s.isDraggingMeasurement
                THEN HoverEndpoint(s, pk) ELSE s
          s2 == IF ValidPick(pk)
                THEN [ s1 EXCEPT !.lastValidPickedPoint = pk.pickedPoint ] ELSE s1
          pointToUse == PointToUse(s2, pk)
      IN  IF pointToUse = NULL THEN s2
          ELSE IF s2.isMovingPoint /\ s2.selectedPlateObject # NULL
                    /\ s2.selectedPointType # NoPointType
               THEN UpdateMovePreview(s2, pointToUse)
          ELSE IF s2.isDraggingMeasurement /\ s2.startPoint # NULL
                    /\ s2.currentLine # NULL
               THEN UpdateMeasuringDisplay(s2, pointToUse)
          ELSE s2

-----------------------------------------------------------------------------
(* Enabling, disabling, keys *)

\* EnableMeasuring: a keydown listener is added at every call and removed only
\* when the scene is disposed
EnableMeasuring(s) ==
    [ s EXCEPT !.keyListeners = @ + 1,
               !.pointerObserver = TRUE,
               !.beforeRenderObserver = TRUE ]

DisableMeasuring(s) ==
    LET s1 == [ s EXCEPT !.pointerObserver = FALSE, !.beforeRenderObserver = FALSE ]
        s2 == IF s1.currentActionState # "None" THEN SetActionState(s1, "None") ELSE s1
    IN  [ s2 EXCEPT !.startPoint = NULL,
                    !.isDraggingMeasurement = FALSE,
                    !.currentLine = NULL,
                    !.dynamicTextMesh = NULL ]

\* one keydown listener (the closure onKeyDown of EnableMeasuring)
OnKeyDown(s, key) ==
    IF key = "Escape"
    THEN IF s.currentActionState # "None" THEN SetActionState(s, "None")
         ELSE DisableMeasuring(s)
    ELSE IF key = "x"
    THEN IF s.isMovingPoint /\ s.selectedMeasurementId # PlaceholderId
         THEN LET s1 == [ ClearMovePreview(s) EXCEPT !.isMovingPoint = FALSE,
                                                     !.selectedPlateObject = NULL,
                                                     !.selectedPointType = NoPointType,
                                                     !.fixedPoint = NULL ]
                  s2 == DeleteMeasurement(s1, s1.selectedMeasurementId)
              IN  [ s2 EXCEPT !.selectedMeasurementId = PlaceholderId ]
         ELSE ToggleDeleteMode(s)
    ELSE s

\* window dispatches the event to every registered listener in turn
RECURSIVE DispatchKey(_, _, _)
DispatchKey(s, key, n) ==
    IF n = 0 THEN s ELSE DispatchKey(OnKeyDown(s, key), key, n - 1)

\* the Navbar_MenuToggle_Measure button: the toggle group switches the tool on
\* or off, then the action state is reset
OnToggleButtonDown(s, on) ==
    SetActionState(IF on THEN EnableMeasuring(s) ELSE DisableMeasuring(s), "None")

-----------------------------------------------------------------------------
(* Inbound messages *)

\* a point as JSON.stringify writes a Vector3: its fields are _x, _y, _z
Wire(p) == [ kind |-> "json", fields |-> ("_x" :> p.x @@ "_y" :> p.y @@ "_z" :> p.z) ]

\* sp._x !== undefined ? sp._x : (sp.x !== undefined ? sp.x : 0)
Field(f, a, b) == IF a \in DOMAIN f THEN f[a] ELSE IF b \in DOMAIN f THEN f[b] ELSE 0

\* reading a field of undefined or null throws
DecodeThrows(payload) == payload = NULL

\* the decoding both inbound handlers apply to startPoint and endPoint
DecodePoint(payload) ==
    IF payload.kind = "Vector3" THEN payload.v
    ELSE [ x |-> Field(payload.fields, "_x", "x"),
           y |-> Field(payload.fields, "_y", "y"),
           z |-> Field(payload.fields, "_z", "z") ]

Message(id, sp, ep, d) ==
    [ measurement_instance_id |-> id, startPoint |-> sp, endPoint |-> ep,
      distanceMeasured |-> d ]

\* variant: no check for an existing id, the entry is replaced
TryAddMeasurementObject_Overwrite(s, jsonData) ==
    IF DecodeThrows(jsonData.startPoint) \/ DecodeThrows(jsonData.endPoint)
    THEN Log(s, "Error adding measurement object")
    ELSE
      LET id == jsonData.measurement_instance_id
          r == NewRef(s.heap)
          newMeasurementPlate == NewPlate(id, DecodePoint(jsonData.startPoint),
                                          DecodePoint(jsonData.endPoint),
                                          jsonData.distanceMeasured)
          s1 == [ s EXCEPT !.heap = MapSet(@, r, newMeasurementPlate) ]
          s2 == InitPlate(s1, r)
      IN  [ s2 EXCEPT !.measurementsList = MapSet(@, id, r),
                      !.plateObjects = MapSet(@, id, r) ]

\* TryAddMeasurementObject: the plate keeps the distance the message carries
TryAddMeasurementObject(s, jsonData) ==
    IF jsonData.measurement_instance_id \in DOMAIN s.measurementsList
    THEN Log(s, "Measurement ID already exists")
    ELSE IF DecodeThrows(jsonData.startPoint) \/ DecodeThrows(jsonData.endPoint)
    THEN Log(s, "Error adding measurement object")
    ELSE
      LET id == jsonData.measurement_instance_id
          r == NewRef(s.heap)
          newMeasurementPlate == NewPlate(id, DecodePoint(jsonData.startPoint),
                                          DecodePoint(jsonData.endPoint),
                                          jsonData.distanceMeasured)
          s1 == [ s EXCEPT !.heap = MapSet(@, r, newMeasurementPlate) ]
          s2 == InitPlate(s1, r)
      IN  [ s2 EXCEPT !.measurementsList = MapSet(@, id, r),
                      !.plateObjects = MapSet(@, id, r) ]

\* the forEach of ReceiveCreateNewMeasurementRequestFromServer
RECURSIVE AddEntries(_, _)
AddEntries(s, arr) ==
    IF arr = << >> THEN s
    ELSE LET dataEntry == Head(arr)
             s1 == IF dataEntry # NULL /\ dataEntry.measurement_instance_id # 0
                   THEN TryAddMeasurementObject(s, dataEntry)
                   ELSE Log(s, "Received invalid measurement data entry")
         IN  AddEntries(s1, Tail(arr))

\* measureDataArray: [isArray, entries]; Array.isArray(measureDataArray) is isArray
ReceiveCreateNewMeasurementRequestFromServer(s, measureDataArray) ==
    IF ~measureDataArray.isArray
    THEN Log(s, "Received invalid measurement data format")
    ELSE AddEntries(s, measureDataArray.entries)

\* an exception leaves the handler: nothing was assigned before the decoding
Throw(s) == [ s EXCEPT !.raised = TRUE ]

\* variant: the points are decoded before the id is looked up
ReceiveUpdateMeasurementRequestFromServer_DecodeFirst(s, updateData) ==
    LET id == updateData.measurement_instance_id
    IN  IF DecodeThrows(updateData.startPoint) \/ DecodeThrows(updateData.endPoint)
        THEN Throw(s)
        ELSE IF id \notin DOMAIN s.plateObjects \/ id \notin DOMAIN s.measurementsList
        THEN Log(s, "Received update for unknown measurement")
        ELSE
          LET plateObject == s.plateObjects[id]
              measurementData == s.measurementsList[id]
              sp == DecodePoint(updateData.startPoint)
              ep == DecodePoint(updateData.endPoint)
              s1 == [ s EXCEPT !.heap = [ @ EXCEPT ![measurementData] =
                        [ @ EXCEPT !.startPoint = sp,
                                   !.endPoint = ep,
                                   !.distanceMeasured = updateData.distanceMeasured ] ] ]
              s2 == UpdateMeasurement(s1, plateObject, sp, ep)
          IN  SetColliderIds(s2, plateObject, id)

\* variant: the entity is replaced by a new plate object instead of mutated
ReceiveUpdateMeasurementRequestFromServer_Replace(s, updateData) ==
    LET id == updateData.measurement_instance_id
    IN  IF id \notin DOMAIN s.plateObjects \/ id \notin DOMAIN s.measurementsList
        THEN Log(s, "Received update for unknown measurement")
        ELSE IF DecodeThrows(updateData.startPoint) \/ DecodeThrows(updateData.endPoint)
        THEN Throw(s)
        ELSE TryAddMeasurementObject_Overwrite(ClearGUI(s, s.plateObjects[id]),
                                               updateData)

ReceiveUpdateMeasurementRequestFromServer(s, updateData) ==
    LET id == updateData.measurement_instance_id
    IN  IF id \notin DOMAIN s.plateObjects \/ id \notin DOMAIN s.measurementsList
        THEN Log(s, "Received update for unknown measurement")
        ELSE IF DecodeThrows(updateData.startPoint) \/ DecodeThrows(updateData.endPoint)
        THEN Throw(s)
        ELSE
          LET plateObject == s.plateObjects[id]
              measurementData == s.measurementsList[id]
              sp == DecodePoint(updateData.startPoint)
              ep == DecodePoint(updateData.endPoint)
              s1 == [ s EXCEPT !.heap = [ @ EXCEPT ![measurementData] =
                        [ @ EXCEPT !.startPoint = sp,
                                   !.endPoint = ep,
                                   !.distanceMeasured = updateData.distanceMeasured ] ] ]
              s2 == UpdateMeasurement(s1, plateObject, sp, ep)
          IN  SetColliderIds(s2, plateObject, id)

\* variant: the selection is not reset when the selected entity is deleted
ReceiveDeleteMeasurementRequestFromServer_KeepSelection(s, deleteData) ==
    LET measurementId == deleteData.measurement_instance_id
    IN  IF measurementId \notin DOMAIN s.plateObjects
        THEN Log(s, "Received delete request for unknown measurement")
        ELSE
          LET s1 == ClearGUI(s, s.plateObjects[measurementId])
          IN  [ s1 EXCEPT !.plateObjects = MapDelete(@, measurementId),
                          !.measurementsList = MapDelete(@, measurementId) ]

ReceiveDeleteMeasurementRequestFromServer(s, deleteData) ==
    LET measurementId == deleteData.measurement_instance_id
    IN  IF measurementId \notin DOMAIN s.plateObjects
        THEN Log(s, "Received delete request for unknown measurement")
        ELSE
          LET s1 == ClearGUI(s, s.plateObjects[measurementId])
              s2 == [ s1 EXCEPT !.plateObjects = MapDelete(@, measurementId),
                                !.measurementsList = MapDelete(@, measurementId) ]
          IN  IF s2.selectedMeasurementId = measurementId
              THEN ResetSelection(ClearMovePreview(s2))
              ELSE s2

-----------------------------------------------------------------------------
(* Inputs *)

Keys == { "Escape", "x", "other" }

\* the messages a server sends for the given ids: well-formed points, and a
\* distance that is the true one or is off
Messages(ids) ==
    { Message(i, Wire(a), Wire(b), Distance(a, b) + e) :
        i \in ids, a \in Points, b \in Points, e \in 0 .. 1 }

\* a message with a point missing
MalformedMessages(ids) ==
    { Message(i, NULL, Wire(Point(0)), Distance(Point(0), Point(0))) : i \in ids }

\* a message that carries the id 0
ZeroIdMessage == Message(0, Wire(Point(0)), Wire(Point(0)), Distance(Point(0), Point(0)))

\* what Update broadcasts carry
UpdateInputs(ids) == Messages(ids \ {0}) \cup MalformedMessages(ids \ {0}) \cup { ZeroIdMessage }

Array(entries) == [ isArray |-> TRUE, entries |-> entries ]

\* what ReceiveCreateNewMeasurementRequestFromServer is called with
CreateInputs(ids) ==
    { [ isArray |-> FALSE, entries |-> << >> ], Array(<< >>), Array(<< NULL >>) }
      \cup { Array(<< m >>) : m \in UpdateInputs(ids) }
      \cup { Array(<< m, m >>) : m \in Messages(ids \ {0}) }

-----------------------------------------------------------------------------
(* Specification *)

\* a handler starts with nothing sent; diag collects the diagnostics the handler
\* writes to the console and raised tells that an exception left it
Begin == [ St EXCEPT !.sent = << >> ]

Apply(t) ==
    \E s \in { Collect(t) } :
        /\ Cardinality(s.orphans) <= MaxOrphans
        /\ pointerObserver' = s.pointerObserver
        /\ beforeRenderObserver' = s.beforeRenderObserver
        /\ keyListeners' = s.keyListeners
        /\ currentActionState' = s.currentActionState
        /\ startPoint' = s.startPoint
        /\ currentLine' = s.currentLine
        /\ dynamicTextMesh' = s.dynamicTextMesh
        /\ isDraggingMeasurement' = s.isDraggingMeasurement
        /\ lastValidPickedPoint' = s.lastValidPickedPoint
        /\ isMovingPoint' = s.isMovingPoint
        /\ selectedMeasurementId' = s.selectedMeasurementId
        /\ selectedPointType' = s.selectedPointType
        /\ selectedPlateObject' = s.selectedPlateObject
        /\ fixedPoint' = s.fixedPoint
        /\ movePreviewLine' = s.movePreviewLine
        /\ movePreviewText' = s.movePreviewText
        /\ hoveredMeasurementId' = s.hoveredMeasurementId
        /\ hoveredPointType' = s.hoveredPointType
        /\ measurementsList' = s.measurementsList
        /\ plateObjects' = s.plateObjects
        /\ heap' = s.heap
        /\ orphans' = s.orphans
        /\ sent' = s.sent
        /\ looks' = s.looks
        /\ UNCHANGED << followLooks, relayVars >>

\* a controller after the constructor and Init, as a record
NewController ==
    [ pointerObserver |-> FALSE,
      beforeRenderObserver |-> FALSE,
      keyListeners |-> 0,
      currentActionState |-> "None",
      startPoint |-> NULL,
      currentLine |-> NULL,
      dynamicTextMesh |-> NULL,
      isDraggingMeasurement |-> FALSE,
      lastValidPickedPoint |-> NULL,
      isMovingPoint |-> FALSE,
      selectedMeasurementId |-> PlaceholderId,
      selectedPointType |-> NoPointType,
      selectedPlateObject |-> NULL,
      fixedPoint |-> NULL,
      movePreviewLine |-> NULL,
      movePreviewText |-> NULL,
      hoveredMeasurementId |-> PlaceholderId,
      hoveredPointType |-> NoPointType,
      measurementsList |-> EmptyMap,
      plateObjects |-> EmptyMap,
      heap |-> EmptyMap,
      orphans |-> {},
      sent |-> << >>,
      looks |-> EmptyMap,
      followLooks |-> FALSE,
      diag |-> {},
      raised |-> FALSE,
      transportFails |-> FALSE ]

Clients == { 1, 2 }

\* two controllers just constructed, nothing in flight, the server's ids start at 1
RelayInit ==
    /\ clients = [ c \in Clients |-> NewController ]
    /\ toServer = [ c \in Clients |-> << >> ]
    /\ inbox = [ c \in Clients |-> << >> ]
    /\ nextId = 1
    /\ requests = 0

\* the controller after the constructor and Init: the tool is not enabled
Constructed ==
    /\ pointerObserver = FALSE
    /\ beforeRenderObserver = FALSE
    /\ keyListeners = 0
    /\ currentActionState = "None"
    /\ startPoint = NULL
    /\ currentLine = NULL
    /\ dynamicTextMesh = NULL
    /\ isDraggingMeasurement = FALSE
    /\ lastValidPickedPoint = NULL
    /\ isMovingPoint = FALSE
    /\ selectedMeasurementId = PlaceholderId
    /\ selectedPointType = NoPointType
    /\ selectedPlateObject = NULL
    /\ fixedPoint = NULL
    /\ movePreviewLine = NULL
    /\ movePreviewText = NULL
    /\ hoveredMeasurementId = PlaceholderId
    /\ hoveredPointType = NoPointType
    /\ measurementsList = EmptyMap
    /\ plateObjects = EmptyMap
    /\ heap = EmptyMap
    /\ orphans = {}
    /\ sent = << >>
    /\ looks = EmptyMap

\* the state after the constructor and Init
Init ==
    /\ Constructed
    /\ followLooks = FALSE
    /\ RelayInit

\* the same state, with the looks of the meshes followed from here on
InitHighlight ==
    /\ Constructed
    /\ followLooks = TRUE
    /\ RelayInit

\* a pointer event: the left button (or a touch) with what is under the
\* pointer, or another mouse button
PointerInputs(s) == { << TRUE, pk >> : pk \in Picks(s) } \cup { << FALSE, Miss >> }

PointerDown ==
    /\ pointerObserver
    /\ \E in \in PointerInputs(St) : Apply(HandlePointerDown(Begin, in[1], in[2]))

PointerUp ==
    /\ pointerObserver
    /\ \E in \in PointerInputs(St) : Apply(HandlePointerUp(Begin, in[1], in[2]))

Tick ==
    /\ beforeRenderObserver
    /\ \E pk \in Picks(St) :
         Apply(HandlePointerMove(Begin, pk))

KeyDown ==
    \E key \in Keys :
      Apply(DispatchKey(Begin, key, keyListeners))

CreateButtonDown == Apply(OnCreateButtonDown(Begin))

DeleteButtonDown == Apply(OnDeleteButtonDown(Begin))

\* the toggle group switches the tool on only when it is off
ToggleButtonDown ==
    \E on \in BOOLEAN :
      /\ on => (~pointerObserver /\ keyListeners < MaxKeyListeners)
      /\ Apply(OnToggleButtonDown(Begin, on))

\* the menu's OnDisableCallback, when another Navbar menu is activated
MenuDisable == Apply(DisableMeasuring(Begin))

ReceiveCreate(ids) ==
    \E arr \in CreateInputs(ids) :
      Apply(ReceiveCreateNewMeasurementRequestFromServer(Begin, arr))

ReceiveUpdate(ids) ==
    \E m \in UpdateInputs(ids) :
      Apply(ReceiveUpdateMeasurementRequestFromServer(Begin, m))

ReceiveDelete(ids) ==
    \E i \in ids :
      Apply(ReceiveDeleteMeasurementRequestFromServer(Begin, [ measurement_instance_id |-> i ]))

Local ==
    \/ PointerDown
    \/ PointerUp
    \/ Tick
    \/ KeyDown
    \/ CreateButtonDown
    \/ DeleteButtonDown
    \/ ToggleButtonDown
    \/ MenuDisable

Next ==
    \/ Local
    \/ ReceiveCreate(ServerIds)
    \/ ReceiveUpdate(ServerIds)
    \/ ReceiveDelete(ServerIds)

Spec == Init /\ [][Next]_vars

\* a server whose broadcasts can carry the placeholder id
PlaceholderServerIds == { PlaceholderId, 0 }

NextSentinel ==
    \/ Local
    \/ ReceiveCreate(PlaceholderServerIds)
    \/ ReceiveUpdate(PlaceholderServerIds)
    \/ ReceiveDelete(PlaceholderServerIds)

SpecSentinel == Init /\ [][NextSentinel]_vars

\* the plates whose endpoint colliders are in the scene
PlatesWithColliders(s) ==
    { r \in DOMAIN s.heap : s.heap[r].startPointCollider # NULL
                              \/ s.heap[r].endPointCollider # NULL }

\* the colliders' ActionManager: OnPointerOverTrigger, OnPointerOutTrigger
\* (onHoverCallback is never assigned)
OnPointerOverTrigger(s, r) == SetRenderingGroup(s, r, "highlights")

OnPointerOutTrigger(s, r) == SetRenderingGroup(s, r, "worldSpace")

\* the pointer comes over a collider of a plate
ColliderPointerOver ==
    \E r \in PlatesWithColliders(St) : Apply(OnPointerOverTrigger(Begin, r))

\* the pointer leaves a collider of a plate
ColliderPointerOut ==
    \E r \in PlatesWithColliders(St) : Apply(OnPointerOutTrigger(Begin, r))

\* the broadcasts that matter for the looks: well-formed points and the true
\* distance (neither a wrong distance nor a dropped message changes a look)
WellFormedMessages(ids) ==
    { Message(i, Wire(a), Wire(b), Distance(a, b)) :
        i \in ids \ {0}, a \in Points, b \in Points }

ReceiveCreateWellFormed(ids) ==
    \E m \in WellFormedMessages(ids) :
      Apply(ReceiveCreateNewMeasurementRequestFromServer(Begin, Array(<< m >>)))

ReceiveUpdateWellFormed(ids) ==
    \E m \in WellFormedMessages(ids) :
      Apply(ReceiveUpdateMeasurementRequestFromServer(Begin, m))

NextHighlight ==
    \/ Local
    \/ ReceiveCreateWellFormed(ServerIds)
    \/ ReceiveUpdateWellFormed(ServerIds)
    \/ ReceiveDelete(ServerIds)
    \/ ColliderPointerOver
    \/ ColliderPointerOut

\* the controller of Spec with the looks of the meshes
SpecHighlight == InitHighlight /\ [][NextHighlight]_vars

-----------------------------------------------------------------------------
(* A transport that can fail *)

\* a handler that starts while SocketHandler.SendData throws, or does not
TransportBegin(fails) == [ Begin EXCEPT !.transportFails = fails ]

PointerDownUnreliable ==
    /\ pointerObserver
    /\ \E in \in PointerInputs(St), fails \in BOOLEAN :
         Apply(HandlePointerDown(TransportBegin(fails), in[1], in[2]))

PointerUpUnreliable ==
    /\ pointerObserver
    /\ \E in \in PointerInputs(St), fails \in BOOLEAN :
         Apply(HandlePointerUp(TransportBegin(fails), in[1], in[2]))

KeyDownUnreliable ==
    \E key \in Keys, fails \in BOOLEAN :
      Apply(DispatchKey(TransportBegin(fails), key, keyListeners))

NextTransport ==
    \/ PointerDownUnreliable
    \/ PointerUpUnreliable
    \/ KeyDownUnreliable
    \/ Tick
    \/ CreateButtonDown
    \/ DeleteButtonDown
    \/ ToggleButtonDown
    \/ MenuDisable
    \/ ReceiveCreate(ServerIds)
    \/ ReceiveUpdate(ServerIds)
    \/ ReceiveDelete(ServerIds)

SpecTransport == Init /\ [][NextTransport]_vars

-----------------------------------------------------------------------------
(* Two clients and a relay server *)

\* the controller of SpecRelay's clients is the record clients[c]; the
\* variables of the single controller stay as constructed
ControllerVars ==
    << pointerObserver, beforeRenderObserver, keyListeners, currentActionState,
       startPoint, currentLine, dynamicTextMesh, isDraggingMeasurement,
       lastValidPickedPoint, isMovingPoint, selectedMeasurementId,
       selectedPointType, selectedPlateObject, fixedPoint, movePreviewLine,
       movePreviewText, hoveredMeasurementId, hoveredPointType,
       measurementsList, plateObjects, heap, orphans, sent, looks, followLooks >>

\* the diagnostics of a send whose transport threw
SendErrors ==
    { "Error sending measurement to server",
      "Error sending measurement update to server",
      "Error sending measurement deletion to server" }

\* the sends a handler attempted: those handed over and those that threw
Attempts(t) == Len(t.sent) + Cardinality(t.diag \cap SendErrors)

\* client c as a handler finds it, with the transport working or not
ClientBegin(c, fails) == [ clients[c] EXCEPT !.transportFails = fails ]

\* client c after a handler: what it sent is on its way to the server
ClientApply(c, t) ==
    /\ requests + Attempts(t) <= MaxRequests
    /\ Cardinality(t.orphans) <= MaxOrphans
    /\ clients' = [ clients EXCEPT ![c] =
                      [ Collect(t) EXCEPT !.sent = << >>, !.diag = {},
                                          !.raised = FALSE, !.transportFails = FALSE ] ]
    /\ toServer' = [ toServer EXCEPT ![c] = @ \o t.sent ]
    /\ requests' = requests + Attempts(t)
    /\ UNCHANGED << inbox, nextId, ControllerVars >>

\* the user of client c opens the tool
ClientEnable(c) ==
    /\ ~clients[c].pointerObserver
    /\ clients[c].keyListeners < 1
    /\ ClientApply(c, OnToggleButtonDown(ClientBegin(c, FALSE), TRUE))

ClientCreateButtonDown(c) ==
    /\ clients[c].pointerObserver
    /\ ClientApply(c, OnCreateButtonDown(ClientBegin(c, FALSE)))

\* a PointerDown sends only in Remove mode, which these clients do not enter
ClientPointerDown(c) ==
    /\ clients[c].pointerObserver
    /\ \E pk \in Picks(clients[c]) :
         ClientApply(c, HandlePointerDown(ClientBegin(c, FALSE), TRUE, pk))

ClientPointerUp(c) ==
    /\ clients[c].pointerObserver
    /\ \E pk \in Picks(clients[c]), fails \in BOOLEAN :
         ClientApply(c, HandlePointerUp(ClientBegin(c, fails), TRUE, pk))

\* the delete shortcut, pressed during a move
ClientKeyDown(c) ==
    /\ clients[c].isMovingPoint
    /\ \E fails \in BOOLEAN :
         ClientApply(c, DispatchKey(ClientBegin(c, fails), "x", clients[c].keyListeners))

\* what the server broadcasts for a request: a Create gets the next id, and
\* the points travel as JSON
Broadcast(req, id) ==
    IF req.type = "Delete"
    THEN [ type |-> "Delete",
           data |-> [ measurement_instance_id |-> req.measurement_instance_id ] ]
    ELSE [ type |-> req.type,
           data |-> Message(IF req.type = "Create" THEN id
                            ELSE req.measurement_instance_id,
                            Wire(req.startPoint), Wire(req.endPoint),
                            req.distanceMeasured) ]

\* the server takes the next request of one client and relays it to all
ServerRelay ==
    \E c \in Clients :
      /\ toServer[c] # << >>
      /\ LET req == Head(toServer[c])
         IN  /\ inbox' = [ d \in Clients |-> Append(inbox[d], Broadcast(req, nextId)) ]
             /\ nextId' = IF req.type = "Create" THEN nextId + 1 ELSE nextId
      /\ toServer' = [ toServer EXCEPT ![c] = Tail(@) ]
      /\ UNCHANGED << clients, requests, ControllerVars >>

\* the handler client c runs for a broadcast
Receive(s, b) ==
    IF b.type = "Create"
    THEN ReceiveCreateNewMeasurementRequestFromServer(s, Array(<< b.data >>))
    ELSE IF b.type = "Update"
    THEN ReceiveUpdateMeasurementRequestFromServer(s, b.data)
    ELSE ReceiveDeleteMeasurementRequestFromServer(s, b.data)

\* client c is delivered the next broadcast
ClientReceive(c) ==
    /\ inbox[c] # << >>
    /\ clients' = [ clients EXCEPT ![c] =
                      [ Collect(Receive(clients[c], Head(inbox[c])))
                          EXCEPT !.diag = {}, !.raised = FALSE ] ]
    /\ inbox' = [ inbox EXCEPT ![c] = Tail(@) ]
    /\ UNCHANGED << toServer, nextId, requests, ControllerVars >>

NextRelay ==
    \/ \E c \in Clients : ClientEnable(c)
    \/ \E c \in Clients : ClientCreateButtonDown(c)
    \/ \E c \in Clients : ClientPointerDown(c)
    \/ \E c \in Clients : ClientPointerUp(c)
    \/ \E c \in Clients : ClientKeyDown(c)
    \/ \E c \in Clients : ClientReceive(c)
    \/ ServerRelay

SpecRelay == Init /\ [][NextRelay]_vars

-----------------------------------------------------------------------------
(* What the claims speak of *)

\* the Registry: the entities measurementsList holds
RegistryIds(s) == DOMAIN s.measurementsList

Entity(s, id) == s.heap[s.measurementsList[id]]

EntityPoints(s, id) == << Entity(s, id).startPoint, Entity(s, id).endPoint >>

\* P holds of the state after every local input step that can be taken now
AfterEveryLocalStep(P(_)) ==
    /\ pointerObserver =>
          \A in \in PointerInputs(St) :
            /\ P(HandlePointerDown(Begin, in[1], in[2]))
            /\ P(HandlePointerUp(Begin, in[1], in[2]))
    /\ beforeRenderObserver => \A pk \in Picks(St) : P(HandlePointerMove(Begin, pk))
    /\ \A key \in Keys : P(DispatchKey(Begin, key, keyListeners))
    /\ P(OnCreateButtonDown(Begin))
    /\ P(OnDeleteButtonDown(Begin))
    /\ \A on \in BOOLEAN : P(OnToggleButtonDown(Begin, on))
    /\ P(DisableMeasuring(Begin))

\* the requests of one type among those a step sent
SentOfType(t, type) == { i \in 1 .. Len(t.sent) : t.sent[i].type = type }

-----------------------------------------------------------------------------
(* C1 *)

\* t holds the same ids as now, with the same stored points
SameRegistryData(t) ==
    /\ RegistryIds(t) = RegistryIds(St)
    /\ \A id \in RegistryIds(St) : EntityPoints(t, id) = EntityPoints(St, id)

OnlyMovePreApplied(t) ==
    /\ RegistryIds(t) = RegistryIds(St)
    /\ \A id \in RegistryIds(St) :
         \/ EntityPoints(t, id) = EntityPoints(St, id)
         \/ /\ isMovingPoint
            /\ id = selectedMeasurementId
            /\ t.sent = << UpdateRequest(id, Entity(t, id).startPoint,
                                         Entity(t, id).endPoint,
                                         Distance(Entity(t, id).startPoint,
                                                  Entity(t, id).endPoint)) >>
            /\ ~t.isMovingPoint

NoStoredPointChange(t) ==
    \A id \in RegistryIds(St) \cap RegistryIds(t) :
      EntityPoints(t, id) = EntityPoints(St, id)

-----------------------------------------------------------------------------
(* C2 *)

\* C2 as stated: after any sequence of inbound Create and Update broadcasts,
\* whose distanceMeasured may differ from the true distance, every entity in
\* the Registry stores the Euclidean distance between its stored points.
C2_StoredDistanceIsEuclidean ==
    \A id \in RegistryIds(St) :
      Entity(St, id).distanceMeasured
        = Distance(Entity(St, id).startPoint, Entity(St, id).endPoint)

-----------------------------------------------------------------------------
(* C3 *)

\* the part of a state a Create broadcast can touch
RegistryView(t) ==
    LET u == Collect(t)
    IN  << u.measurementsList, u.plateObjects, u.heap, u.orphans >>

\* C3: a Create broadcast for an id already in the Registry, with the same or
\* with other points, leaves the Registry with the one entity it had for that
\* id, the same object with the same points; and delivering a Create twice
\* leaves what delivering it once leaves.
C3_CreateIsIdempotent ==
    \A m \in Messages(ServerIds \ {0}) :
      /\ m.measurement_instance_id \in RegistryIds(St) =>
           LET t == ReceiveCreateNewMeasurementRequestFromServer(Begin, Array(<< m >>))
           IN  /\ RegistryView(t) = RegistryView(Begin)
               /\ [ t EXCEPT !.diag = {} ] = Begin
      /\ RegistryView(ReceiveCreateNewMeasurementRequestFromServer(Begin, Array(<< m, m >>)))
           = RegistryView(ReceiveCreateNewMeasurementRequestFromServer(Begin, Array(<< m >>)))

\* an entity is stored and a Create for its id with other points is refused
C3_Witness ==
    \E m \in Messages(ServerIds \ {0}) :
      /\ m.measurement_instance_id \in RegistryIds(St)
      /\ DecodePoint(m.startPoint) # Entity(St, m.measurement_instance_id).startPoint
      /\ "Measurement ID already exists"
           \in ReceiveCreateNewMeasurementRequestFromServer(Begin, Array(<< m >>)).diag

-----------------------------------------------------------------------------
(* C4 *)

AbsentFromRegistry(id) == id \notin DOMAIN measurementsList /\ id \notin DOMAIN plateObjects

\* the handler changed nothing and nothing was raised
Ignored(t) == ~t.raised /\ [ t EXCEPT !.diag = {} ] = Begin

\* C4: an inbound Update or Delete broadcast whose id is absent from the
\* Registry raises no error and leaves the Registry and the interaction state
\* (mode, drag, move, hover) unchanged.
C4_UnknownIdIsIgnored ==
    /\ \A m \in UpdateInputs(ServerIds) :
         AbsentFromRegistry(m.measurement_instance_id) =>
           Ignored(ReceiveUpdateMeasurementRequestFromServer(Begin, m))
    /\ \A i \in ServerIds :
         AbsentFromRegistry(i) =>
           Ignored(ReceiveDeleteMeasurementRequestFromServer(
                       Begin, [ measurement_instance_id |-> i ]))

\* a move is in progress while a broadcast for an unknown id is refused, also
\* one whose points are missing
C4_Witness ==
    /\ isMovingPoint
    /\ \E m \in MalformedMessages(ServerIds) :
         /\ AbsentFromRegistry(m.measurement_instance_id)
         /\ "Received update for unknown measurement"
              \in ReceiveUpdateMeasurementRequestFromServer(Begin, m).diag
         /\ "Received delete request for unknown measurement"
              \in ReceiveDeleteMeasurementRequestFromServer(
                      Begin, [ measurement_instance_id |-> m.measurement_instance_id ]).diag

-----------------------------------------------------------------------------
(* C5 *)

\* C5 as stated: the sentinel id -1 is never a key of the Registry, for any
\* sequence of inbound Create broadcasts, including one that carries
\* measurement_instance_id = -1, and local events.
C5_SentinelIsNeverAKey ==
    /\ PlaceholderId \notin DOMAIN measurementsList
    /\ PlaceholderId \notin DOMAIN plateObjects

-----------------------------------------------------------------------------
(* C6 *)

\* the left-button PointerUp that follows t sends no request of this type
NextPointerUpSendsNo(t, type) ==
    t.pointerObserver =>
      \A in \in PointerInputs(t) :
        SentOfType(HandlePointerUp([ t EXCEPT !.sent = << >> ], in[1], in[2]), type) = {}

\* C6 as stated: Escape pressed in Create mode while a create-drag is in
\* flight cancels the drag: the controller is Idle with no drag in progress,
\* and the following PointerUp sends no Create request.
C6_EscapeCancelsCreateDrag ==
    (currentActionState = "Add" /\ isDraggingMeasurement /\ startPoint # NULL
       /\ keyListeners > 0) =>
      LET t == DispatchKey(Begin, "Escape", keyListeners)
      IN  /\ t.currentActionState = "None"
          /\ ~t.isDraggingMeasurement
          /\ NextPointerUpSendsNo(t, "Create")

-----------------------------------------------------------------------------
(* C7 *)

\* C7 as stated: when the point-move on entity e is cancelled, by Escape
\* pressed during the move or by a PointerUp for which no valid point exists,
\* the stored startPoint and endPoint of e are those of the moment the move
\* began (no step of a move changes them before its PointerUp), and no
\* Update request for e is sent as a result of that move.
C7_CancelledMoveChangesNothing ==
    (isMovingPoint /\ selectedMeasurementId \in RegistryIds(St)) =>
      LET e == selectedMeasurementId
      IN  /\ keyListeners > 0 =>
                LET t == DispatchKey(Begin, "Escape", keyListeners)
                IN  /\ e \in RegistryIds(t)
                    /\ EntityPoints(t, e) = EntityPoints(St, e)
                    /\ t.sent = << >>
                    /\ NextPointerUpSendsNo(t, "Update")
          /\ (pointerObserver /\ lastValidPickedPoint = NULL) =>
                LET t == HandlePointerUp(Begin, TRUE, Miss)
                IN  /\ e \in RegistryIds(t)
                    /\ EntityPoints(t, e) = EntityPoints(St, e)
                    /\ t.sent = << >>
                    /\ ~t.isMovingPoint

-----------------------------------------------------------------------------
(* C8 *)

DeleteOf(id) == [ measurement_instance_id |-> id ]

-----------------------------------------------------------------------------
(* C9 *)

\* t sent no Create and no Update, and started no create-drag and no move
NoCreateOrMoveActivity(t) ==
    /\ SentOfType(t, "Create") = {}
    /\ SentOfType(t, "Update") = {}
    /\ t.isDraggingMeasurement => isDraggingMeasurement
    /\ t.isMovingPoint => isMovingPoint

\* C9 as stated: in every reachable state whose primary mode is Delete, no
\* step sends a Create or Update request and no step starts or completes a
\* create-drag or a point-move, including the PointerUp of a drag or move
\* that began before Delete mode was entered.
C9_DeleteModeSuppressesCreateAndMove ==
    currentActionState = "Remove" => AfterEveryLocalStep(NoCreateOrMoveActivity)

-----------------------------------------------------------------------------
(* C10 *)

\* C10: from Idle, ToggleCreate enters Create and a second ToggleCreate is
\* back in Idle; ToggleDelete (button or keyboard) enters Delete and a second
\* one is back in Idle, whatever the hover and the Registry hold.
C10_TogglesAreReversible ==
    currentActionState = "None" =>
      /\ OnCreateButtonDown(Begin).currentActionState = "Add"
      /\ OnCreateButtonDown(OnCreateButtonDown(Begin)).currentActionState = "None"
      /\ OnDeleteButtonDown(Begin).currentActionState = "Remove"
      /\ OnDeleteButtonDown(OnDeleteButtonDown(Begin)).currentActionState = "None"
      /\ ToggleDeleteMode(Begin).currentActionState = "Remove"
      /\ ToggleDeleteMode(ToggleDeleteMode(Begin)).currentActionState = "None"

\* Idle, with an endpoint hovered and an entity stored
C10_Witness ==
    /\ currentActionState = "None"
    /\ hoveredMeasurementId # PlaceholderId
    /\ RegistryIds(St) # {}
    /\ OnCreateButtonDown(Begin).currentActionState = "Add"
    /\ OnCreateButtonDown(OnCreateButtonDown(Begin)).currentActionState = "None"

-----------------------------------------------------------------------------
(* C11 *)

\* nothing is in flight and no client is in a drag or a move
Quiescent ==
    /\ \A c \in Clients : toServer[c] = << >> /\ inbox[c] = << >>
    /\ \A c \in Clients : ~clients[c].isDraggingMeasurement /\ ~clients[c].isMovingPoint

\* C11 as stated: with two clients and a server that relays every request it
\* receives to both in one order, and sends that may fail, whenever nothing is
\* in flight and no drag or move is in progress both Registries hold the same
\* ids with the same startPoint and endPoint.
C11_ClientsAgreeWhenQuiescent ==
    Quiescent =>
      /\ RegistryIds(clients[1]) = RegistryIds(clients[2])
      /\ \A id \in RegistryIds(clients[1]) \cap RegistryIds(clients[2]) :
           EntityPoints(clients[1], id) = EntityPoints(clients[2], id)

-----------------------------------------------------------------------------
(* C12 *)

\* C12 as stated: for every id, 0 included, that is absent from the Registry,
\* a Create broadcast with that id and well-formed points leaves the Registry
\* holding an entity with that id and those points.
C12_CreateInsertsEveryAbsentId ==
    \A id \in ServerIds, a \in Points, b \in Points :
      id \notin RegistryIds(St) =>
        LET t == ReceiveCreateNewMeasurementRequestFromServer(
                     Begin, Array(<< Message(id, Wire(a), Wire(b), Distance(a, b)) >>))
        IN  /\ id \in RegistryIds(t)
            /\ EntityPoints(t, id) = << a, b >>

-----------------------------------------------------------------------------
(* C13 *)

\* C13 as stated: the delete shortcut X pressed while MovingPoint is true for
\* entity e sends exactly one Delete request for e, discards the move preview,
\* clears MovingPoint and the selection, and leaves the primary mode unchanged.
C13_DeleteShortcutWhileMoving ==
    (isMovingPoint /\ selectedMeasurementId # PlaceholderId /\ keyListeners > 0) =>
      LET t == DispatchKey(Begin, "x", keyListeners)
      IN  /\ t.sent = << DeleteRequest(selectedMeasurementId) >>
          /\ t.movePreviewLine = NULL
          /\ t.movePreviewText = NULL
          /\ ~t.isMovingPoint
          /\ t.selectedMeasurementId = PlaceholderId
          /\ t.selectedPlateObject = NULL
          /\ t.selectedPointType = NoPointType
          /\ t.fixedPoint = NULL
          /\ t.currentActionState = currentActionState

-----------------------------------------------------------------------------
(* C14 *)

\* a point of a broadcast as JSON with only some of its components
PartialWire(fields) == [ kind |-> "json", fields |-> fields ]

\* points that are missing, empty, or lack components, and a whole one
PointPayloads ==
    { NULL,
      PartialWire(<< >>),
      PartialWire("_x" :> 1),
      PartialWire("x" :> 1 @@ "y" :> 2),
      Wire(Point(1)) }

\* the point the claim expects: every component that is not there is zero
ZeroFilled(payload) ==
    IF payload = NULL THEN [ x |-> 0, y |-> 0, z |-> 0 ]
    ELSE [ x |-> Field(payload.fields, "_x", "x"),
           y |-> Field(payload.fields, "_y", "y"),
           z |-> Field(payload.fields, "_z", "z") ]

\* t raised nothing and holds entity id with the zero-filled points
AppliedZeroFilled(t, id, sp, ep) ==
    /\ ~t.raised
    /\ id \in RegistryIds(t)
    /\ EntityPoints(t, id) = << ZeroFilled(sp), ZeroFilled(ep) >>

\* C14 as stated: an inbound Create or Update broadcast whose startPoint or
\* endPoint is missing entirely or lacks some components never raises out of
\* the handler; missing components are decoded as zero and the message is
\* applied rather than dropped.
C14_MalformedPointsAreZeroFilled ==
    \A sp \in PointPayloads, ep \in PointPayloads, id \in ServerIds \ {0} :
      /\ id \notin RegistryIds(St) =>
           AppliedZeroFilled(
               ReceiveCreateNewMeasurementRequestFromServer(
                   Begin, Array(<< Message(id, sp, ep, 0) >>)), id, sp, ep)
      /\ (id \in RegistryIds(St) /\ id \in DOMAIN plateObjects) =>
           AppliedZeroFilled(
               ReceiveUpdateMeasurementRequestFromServer(
                   Begin, Message(id, sp, ep, 0)), id, sp, ep)

-----------------------------------------------------------------------------
(* C15 *)

\* ko is what a handler leaves when every send it makes fails, ok what the same
\* handler leaves when they succeed: nothing raised, nothing sent, one logged
\* error per kind of request and otherwise the same controller
DroppedSilently(ok, ko) ==
    /\ ~ko.raised
    /\ ko.sent = << >>
    /\ Attempts(ko) = Attempts(ok)
    /\ [ ko EXCEPT !.sent = ok.sent, !.diag = ok.diag, !.transportFails = FALSE ] = ok

\* C15: when the transport raises during the send of a Create, Update or
\* Delete request, no error leaves the input handler, the request is dropped
\* and not sent again, and the controller (mode, drag, move, selection,
\* previews and everything else) is left as when the send succeeds.
C15_FailedSendIsDroppedSilently ==
    /\ pointerObserver =>
         \A in \in PointerInputs(St) :
           /\ DroppedSilently(HandlePointerDown(TransportBegin(FALSE), in[1], in[2]),
                              HandlePointerDown(TransportBegin(TRUE), in[1], in[2]))
           /\ DroppedSilently(HandlePointerUp(TransportBegin(FALSE), in[1], in[2]),
                              HandlePointerUp(TransportBegin(TRUE), in[1], in[2]))
    /\ \A key \in Keys :
         DroppedSilently(DispatchKey(TransportBegin(FALSE), key, keyListeners),
                         DispatchKey(TransportBegin(TRUE), key, keyListeners))

\* each kind of request can be sent now, and is logged when the transport fails
C15_Witness ==
    /\ pointerObserver
    /\ isMovingPoint
    /\ \E pk \in Picks(St) :
         /\ SentOfType(HandlePointerUp(TransportBegin(FALSE), TRUE, pk), "Update") # {}
         /\ HandlePointerUp(TransportBegin(TRUE), TRUE, pk).diag \cap SendErrors # {}
    /\ SentOfType(DispatchKey(TransportBegin(FALSE), "x", keyListeners), "Delete") # {}
    /\ sent = << >>

-----------------------------------------------------------------------------
(* C16 *)

\* every entity stored now is still stored in t, in both maps
KeepsEntities(t) ==
    /\ RegistryIds(St) \subseteq RegistryIds(t)
    /\ DOMAIN plateObjects \subseteq DOMAIN t.plateObjects

-----------------------------------------------------------------------------
(* C17 *)

\* every Create request t sent has the placeholder id, the start point
\* remembered now, and the distance of the points it carries
CreatesCarryDragStart(t) ==
    \A i \in SentOfType(t, "Create") :
      /\ t.sent[i].measurement_instance_id = PlaceholderId
      /\ startPoint # NULL
      /\ t.sent[i].startPoint = startPoint
      /\ t.sent[i].distanceMeasured = Distance(t.sent[i].startPoint, t.sent[i].endPoint)

\* t remembers the start point remembered now, or none
StartPointKept(t) == t.startPoint \in { startPoint, NULL }

\* C17: every Create request the client sends carries the id -1, the start point
\* remembered at the drag's PointerDown and the Euclidean distance of the points
\* it carries: a PointerDown that starts a drag remembers its picked point, no
\* other step remembers another point, and a request carries the remembered one.
C17_CreateRequestCarriesDragStart ==
    /\ AfterEveryLocalStep(CreatesCarryDragStart)
    /\ pointerObserver =>
         \A in \in PointerInputs(St) :
           /\ LET t == HandlePointerDown(Begin, in[1], in[2])
              IN  /\ t.startPoint # startPoint => t.startPoint = in[2].pickedPoint
                  /\ (t.isDraggingMeasurement /\ ~isDraggingMeasurement) =>
                       t.startPoint = in[2].pickedPoint
           /\ StartPointKept(HandlePointerUp(Begin, in[1], in[2]))
    /\ beforeRenderObserver => \A pk \in Picks(St) : StartPointKept(HandlePointerMove(Begin, pk))
    /\ \A key \in Keys : StartPointKept(DispatchKey(Begin, key, keyListeners))
    /\ StartPointKept(OnCreateButtonDown(Begin))
    /\ StartPointKept(OnDeleteButtonDown(Begin))
    /\ \A on \in BOOLEAN : StartPointKept(OnToggleButtonDown(Begin, on))
    /\ StartPointKept(DisableMeasuring(Begin))
    /\ \A arr \in CreateInputs(ServerIds) :
         StartPointKept(ReceiveCreateNewMeasurementRequestFromServer(Begin, arr))
    /\ \A m \in UpdateInputs(ServerIds) :
         StartPointKept(ReceiveUpdateMeasurementRequestFromServer(Begin, m))
    /\ \A i \in ServerIds :
         StartPointKept(ReceiveDeleteMeasurementRequestFromServer(
                            Begin, [ measurement_instance_id |-> i ]))

\* a Create request with two different points has just been sent
C17_Witness ==
    /\ Len(sent) = 1
    /\ sent[1].type = "Create"
    /\ sent[1].startPoint # sent[1].endPoint
    /\ sent[1].distanceMeasured > 0

-----------------------------------------------------------------------------
(* C18 *)

\* t differs from the state now by exactly one Delete request for id
SentOneDeleteFor(t, id) ==
    /\ t.sent = << DeleteRequest(id) >>
    /\ [ t EXCEPT !.sent = << >> ] = Begin

\* C18 as stated: in Delete mode every left-button PointerDown while an entity
\* e is hovered sends exactly one Delete request for e, and every PointerDown
\* while nothing is hovered sends nothing and changes no state.
C18_DeleteModeClickAsStated ==
    (pointerObserver /\ currentActionState = "Remove") =>
      \A in \in PointerInputs(St) :
        LET t == HandlePointerDown(Begin, in[1], in[2])
        IN  /\ (in[1] /\ hoveredMeasurementId # PlaceholderId) =>
                 SentOneDeleteFor(t, hoveredMeasurementId)
            /\ hoveredMeasurementId = PlaceholderId => t = Begin

\* C18 amended: in Delete mode every left-button PointerDown whose pick hits a
\* point while an entity e is hovered sends exactly one Delete request for e
\* and changes nothing else; a PointerDown whose pick hits nothing, one of
\* another button, and every PointerDown while nothing is hovered sends
\* nothing and changes no state.
C18_DeleteModeClickThatHits ==
    (pointerObserver /\ currentActionState = "Remove") =>
      \A in \in PointerInputs(St) :
        LET t == HandlePointerDown(Begin, in[1], in[2])
        IN  IF in[1] /\ ValidPick(in[2]) /\ hoveredMeasurementId # PlaceholderId
            THEN SentOneDeleteFor(t, hoveredMeasurementId)
            ELSE t = Begin

\* in Delete mode, with an entity hovered, a click has just sent its Delete
C18_Witness ==
    /\ pointerObserver
    /\ currentActionState = "Remove"
    /\ hoveredMeasurementId # PlaceholderId
    /\ sent = << DeleteRequest(hoveredMeasurementId) >>

-----------------------------------------------------------------------------
(* C19 *)

\* C19 as stated: a frame tick while a create-drag or a point-move is in
\* progress leaves hoveredMeasurementId and hoveredPointType unchanged and
\* changes the colour and the rendering group of no entity, in every mode.
C19_TickDuringDragKeepsHover ==
    (beforeRenderObserver /\ (isDraggingMeasurement \/ isMovingPoint)) =>
      \A pk \in Picks(St) :
        LET t == HandlePointerMove(Begin, pk)
        IN  /\ t.hoveredMeasurementId = hoveredMeasurementId
            /\ t.hoveredPointType = hoveredPointType
            /\ t.looks = looks

-----------------------------------------------------------------------------
(* C20 *)

\* the colours of a hover: the neutral one and the delete warning
HoverColours == { "colors_hover", "colors_delete" }

\* nothing is hovered in t and no stored entity of t looks hovered
HoverCleared(t) ==
    /\ t.hoveredMeasurementId = PlaceholderId
    /\ t.hoveredPointType = NoPointType
    /\ \A id \in DOMAIN t.plateObjects :
         LET look == Look(t, t.plateObjects[id])
         IN  /\ { look.line, look.start, look.end } \cap HoverColours = {}
             /\ look.renderingGroupId # "highlights"

\* t is in Add or Remove and the state now is in another mode
EntersCreateOrDelete(t) ==
    /\ t.currentActionState \in { "Add", "Remove" }
    /\ t.currentActionState # currentActionState

\* a step that enters Add or Remove leaves the hover cleared
ClearsHoverOnEntry(t) == EntersCreateOrDelete(t) => HoverCleared(t)

\* C20 as stated: immediately after any transition into Create or into Delete,
\* by button or by key, hoveredMeasurementId is none, hoveredPointType is none
\* and no entity has a hover colour or the highlights rendering group.
C20_EnteringCreateOrDeleteClearsHover ==
    /\ ClearsHoverOnEntry(OnCreateButtonDown(Begin))
    /\ ClearsHoverOnEntry(OnDeleteButtonDown(Begin))
    /\ \A key \in Keys : ClearsHoverOnEntry(DispatchKey(Begin, key, keyListeners))

-----------------------------------------------------------------------------
(* C21 *)

\* a look with a hover or delete-warning colour or the highlights group
Highlighted(look) ==
    \/ { look.line, look.start, look.end } \cap HoverColours # {}
    \/ look.renderingGroupId = "highlights"

\* C21 as stated: in every reachable state an entity of the Registry that has a
\* hover or delete-warning colour or the highlights rendering group is the
\* hovered one; when nothing is hovered no entity has such a colour or group.
C21_NoHighlightIsStuck ==
    \A id \in DOMAIN plateObjects :
      Highlighted(Look(St, plateObjects[id])) =>
        (hoveredMeasurementId # PlaceholderId /\ id = hoveredMeasurementId)

-----------------------------------------------------------------------------
(* C22 *)

\* C22 as stated: in every reachable state where isMovingPoint is true, the
\* key X leaves currentActionState as it is.
C22_KeyXWhileMovingKeepsMode ==
    isMovingPoint =>
      DispatchKey(Begin, "x", keyListeners).currentActionState = currentActionState

-----------------------------------------------------------------------------
(* C23 *)

\* a create-drag can start now
CanStartDrag ==
    /\ currentActionState = "Add"
    /\ ~isDraggingMeasurement
    /\ ~isMovingPoint

\* t has the create-drag state of now: flag, start point and preview
SameDragState(t) ==
    /\ t.isDraggingMeasurement = isDraggingMeasurement
    /\ t.startPoint = startPoint
    /\ t.currentLine = currentLine
    /\ t.dynamicTextMesh = dynamicTextMesh

\* C23: a PointerDown starts a create-drag only when the mode is Add, no
\* create-drag is in progress and isMovingPoint is false; in every other state
\* a PointerDown (on a plain surface or anywhere else) leaves the drag flag, the
\* remembered start point and the preview as they are.  When it starts a drag
\* it is a left-button one with a valid pick off the endpoint colliders, and it
\* remembers the picked point.
C23_DragStartsOnlyWhenIdleInAdd ==
    pointerObserver =>
      \A in \in PointerInputs(St) :
        LET t == HandlePointerDown(Begin, in[1], in[2])
        IN  /\ ~SameDragState(t) =>
                 /\ CanStartDrag
                 /\ in[1] /\ ValidPick(in[2]) /\ ~EndpointPick(in[2])
                 /\ t.isDraggingMeasurement
                 /\ t.startPoint = in[2].pickedPoint
                 /\ t.currentLine # NULL
            /\ ~CanStartDrag => SameDragState(t)

\* a create-drag is in progress in Add mode: the next PointerDown on a surface
\* point other than the start point must not restart it
C23_Witness ==
    /\ pointerObserver
    /\ currentActionState = "Add"
    /\ isDraggingMeasurement
    /\ startPoint # NULL
    /\ currentLine # NULL
    /\ \E p \in Points : p # startPoint /\ SurfacePick(p) \in Picks(St)

-----------------------------------------------------------------------------
(* C24 *)

\* t has the move state of now: the selection, the fixed point, and the plates
\* with the visuals they have now
SameMoveState(t) ==
    /\ t.isMovingPoint = isMovingPoint
    /\ t.selectedMeasurementId = selectedMeasurementId
    /\ t.selectedPointType = selectedPointType
    /\ t.selectedPlateObject = selectedPlateObject
    /\ t.fixedPoint = fixedPoint
    /\ t.heap = heap

\* C24 as stated: a create-drag and a point-move are never in progress at the
\* same time, and no PointerDown starts a point-move while a point-move is in
\* progress.
C24_DragAndMoveExcludeEachOther ==
    /\ ~(isDraggingMeasurement /\ isMovingPoint)
    /\ (pointerObserver /\ isMovingPoint) =>
         \A in \in PointerInputs(St) :
           SameMoveState(HandlePointerDown(Begin, in[1], in[2]))

-----------------------------------------------------------------------------
(* C25 *)

\* every Update request t sent names the entity being moved, carries final in
\* the role being moved and the fixed point in the other role
UpdatesCarryMove(t, final) ==
    \A i \in SentOfType(t, "Update") :
      /\ isMovingPoint
      /\ selectedPointType # NoPointType
      /\ fixedPoint # NULL
      /\ final # NULL
      /\ t.sent[i].measurement_instance_id = selectedMeasurementId
      /\ t.sent[i].startPoint = IF selectedPointType = "start" THEN final ELSE fixedPoint
      /\ t.sent[i].endPoint = IF selectedPointType = "start" THEN fixedPoint ELSE final

\* t remembers the move that is remembered now, or none
MoveKept(t) ==
    /\ t.fixedPoint \in { fixedPoint, NULL }
    /\ t.selectedPointType \in { selectedPointType, NoPointType }
    /\ t.selectedMeasurementId \in { selectedMeasurementId, PlaceholderId }

\* t sent no Update request
NoUpdateSent(t) == SentOfType(t, "Update") = {}

\* t remembers a move that pk started: the entity and the role of the picked
\* collider, and the point the entity stores now in the other role
MoveStartedBy(t, pk) ==
    /\ EndpointPick(pk)
    /\ LET md == pk.pickedMesh.metadata
       IN  /\ t.isMovingPoint
           /\ t.selectedMeasurementId = md.measurementId
           /\ t.selectedPointType = md.pointType
           /\ md.measurementId \in RegistryIds(St)
           /\ measurementsList[md.measurementId] = md.measurementPlate
           /\ t.fixedPoint = IF md.pointType = "start"
                             THEN EntityPoints(St, md.measurementId)[2]
                             ELSE EntityPoints(St, md.measurementId)[1]

\* C25: the Update request sent when a move of one endpoint of entity e
\* completes carries the id e, the final valid point in the role that was
\* picked and, in the other role, the point e stored for it when the move's
\* PointerDown occurred.  A PointerDown that starts a move remembers the
\* entity, the role and the other role's stored point; no other step remembers
\* anything else; only a PointerUp sends an Update, and with what is remembered.
C25_UpdateCarriesMovedAndFixedPoint ==
    /\ pointerObserver =>
         \A in \in PointerInputs(St) :
           /\ LET t == HandlePointerDown(Begin, in[1], in[2])
              IN  /\ NoUpdateSent(t)
                  /\ ~MoveKept(t) => MoveStartedBy(t, in[2])
           /\ LET t == HandlePointerUp(Begin, in[1], in[2])
              IN  /\ UpdatesCarryMove(t, PointToUse(St, in[2]))
                  /\ MoveKept(t)
    /\ beforeRenderObserver =>
         \A pk \in Picks(St) :
           LET t == HandlePointerMove(Begin, pk) IN NoUpdateSent(t) /\ MoveKept(t)
    /\ \A key \in Keys :
         LET t == DispatchKey(Begin, key, keyListeners) IN NoUpdateSent(t) /\ MoveKept(t)
    /\ NoUpdateSent(OnCreateButtonDown(Begin)) /\ MoveKept(OnCreateButtonDown(Begin))
    /\ NoUpdateSent(OnDeleteButtonDown(Begin)) /\ MoveKept(OnDeleteButtonDown(Begin))
    /\ \A on \in BOOLEAN :
         LET t == OnToggleButtonDown(Begin, on) IN NoUpdateSent(t) /\ MoveKept(t)
    /\ NoUpdateSent(DisableMeasuring(Begin)) /\ MoveKept(DisableMeasuring(Begin))
    /\ \A arr \in CreateInputs(ServerIds) :
         MoveKept(ReceiveCreateNewMeasurementRequestFromServer(Begin, arr))
    /\ \A m \in UpdateInputs(ServerIds) :
         MoveKept(ReceiveUpdateMeasurementRequestFromServer(Begin, m))
    /\ \A i \in ServerIds :
         MoveKept(ReceiveDeleteMeasurementRequestFromServer(
                      Begin, [ measurement_instance_id |-> i ]))

\* a move has just completed with an Update whose two points differ
C25_Witness ==
    /\ ~isMovingPoint
    /\ Len(sent) = 1
    /\ sent[1].type = "Update"
    /\ sent[1].startPoint # sent[1].endPoint
    /\ sent[1].measurement_instance_id \in RegistryIds(St)

-----------------------------------------------------------------------------
(* C26 *)

\* C26 as stated: while isMovingPoint is true for an entity, the entity's line,
\* label and endpoint colliders are not in the scene, in every reachable state.
C26_MovedEntityStaysHidden ==
    (isMovingPoint /\ selectedPlateObject # NULL) =>
      ~HasVisuals(heap[selectedPlateObject])

-----------------------------------------------------------------------------
(* C27 *)

\* the line, the label and both colliders of the plate p are in the scene
AllVisuals(p) ==
    /\ p.line # NULL
    /\ p.textMesh # NULL
    /\ p.startPointCollider # NULL
    /\ p.endPointCollider # NULL

\* C27 as stated: in every reachable state with isMovingPoint false, every
\* entity of the Registry has its visuals.
C27_VisualsPresentWhenNotMoving ==
    ~isMovingPoint =>
      \A id \in RegistryIds(St) : AllVisuals(Entity(St, id))

-----------------------------------------------------------------------------
(* C28 *)

\* the create-drag state of t is reset: flag, start point, preview
DragReset(t) ==
    /\ ~t.isDraggingMeasurement
    /\ t.startPoint = NULL
    /\ t.currentLine = NULL
    /\ t.dynamicTextMesh = NULL

\* the one Create request from the start point remembered now to endPoint
CreateTo(endPoint) ==
    << CreateRequest(PlaceholderId, startPoint, endPoint, Distance(startPoint, endPoint)) >>

\* C28: on the left-button PointerUp that ends a create-drag (a drag is in
\* progress and no point-move takes the event): with a valid pick the Create
\* request uses the picked point as end point; otherwise, with a last valid
\* picked point, it uses that point; otherwise nothing is sent; in all three
\* cases the drag flag, the remembered start point and the preview are reset.
C28_PointerUpEndsDrag ==
    (pointerObserver /\ isDraggingMeasurement /\ ~isMovingPoint) =>
      \A pk \in Picks(St) :
        LET t == HandlePointerUp(Begin, TRUE, pk)
        IN  /\ startPoint # NULL
            /\ t.sent = IF ValidPick(pk) THEN CreateTo(pk.pickedPoint)
                        ELSE IF lastValidPickedPoint # NULL
                             THEN CreateTo(lastValidPickedPoint)
                        ELSE << >>
            /\ DragReset(t)

\* a create-drag is in progress, no move, and a last valid point other than the
\* start point is there for a PointerUp whose pick misses
C28_Witness ==
    /\ pointerObserver
    /\ isDraggingMeasurement
    /\ ~isMovingPoint
    /\ lastValidPickedPoint # NULL
    /\ lastValidPickedPoint # startPoint
    /\ HandlePointerUp(Begin, TRUE, Miss).sent = CreateTo(lastValidPickedPoint)

-----------------------------------------------------------------------------
(* C29 *)

\* the PointerDown with input in starts a create-drag or a point-move
StartsDragOrMove(t) ==
    \/ t.isDraggingMeasurement /\ ~isDraggingMeasurement
    \/ t.isMovingPoint /\ ~isMovingPoint

\* C29: the fallback end point of a Create or Update request was picked during
\* the current drag or move. A PointerUp whose pick is a miss, arriving right
\* after the PointerDown that started the drag or move (no frame tick in
\* between, so nothing was picked during it), sends no request.
C29_FallbackPickedDuringCurrentDrag ==
    pointerObserver =>
      \A in \in PointerInputs(St) :
        LET t == HandlePointerDown(Begin, in[1], in[2])
        IN  StartsDragOrMove(t) =>
              HandlePointerUp([ t EXCEPT !.sent = << >> ], TRUE, Miss).sent = << >>

-----------------------------------------------------------------------------
(* C30 *)

\* the states the tool is left in when it is exited now: Escape pressed in
\* Idle, the menu's disable callback, or the toggle button switched off
ExitResults ==
    { DisableMeasuring(Begin), OnToggleButtonDown(Begin, FALSE) }
      \cup { DispatchKey(Begin, "Escape", keyListeners) : x \in
               { y \in { 0 } : currentActionState = "None" /\ keyListeners > 0 } }

\* mode, create-drag, point-move and previews of u are those of t
SameInteraction(t, u) ==
    /\ u.currentActionState = t.currentActionState
    /\ u.isDraggingMeasurement = t.isDraggingMeasurement
    /\ u.startPoint = t.startPoint
    /\ u.currentLine = t.currentLine
    /\ u.dynamicTextMesh = t.dynamicTextMesh
    /\ u.isMovingPoint = t.isMovingPoint
    /\ u.selectedMeasurementId = t.selectedMeasurementId
    /\ u.selectedPointType = t.selectedPointType
    /\ u.selectedPlateObject = t.selectedPlateObject
    /\ u.fixedPoint = t.fixedPoint
    /\ u.movePreviewLine = t.movePreviewLine
    /\ u.movePreviewText = t.movePreviewText

\* the tool is at rest in t: Idle, nothing in progress, no preview, every
\* Registry entity has its visuals
AtRest(t) ==
    /\ t.currentActionState = "None"
    /\ ~t.isDraggingMeasurement
    /\ ~t.isMovingPoint
    /\ t.currentLine = NULL /\ t.dynamicTextMesh = NULL
    /\ t.movePreviewLine = NULL /\ t.movePreviewText = NULL
    /\ \A id \in RegistryIds(t) : AllVisuals(Entity(t, id))

\* no key event changes the interaction state of t or sends a request (pointer
\* events and ticks are not delivered: both observers are removed)
KeysAreInert(t) ==
    /\ ~t.pointerObserver
    /\ ~t.beforeRenderObserver
    /\ \A key \in Keys :
         LET u == DispatchKey(t, key, t.keyListeners)
         IN  SameInteraction(t, u) /\ u.sent = << >>

\* C30: after the tool is exited the mode is Idle, no create-drag and no
\* point-move is in progress, no preview exists, every Registry entity has its
\* visuals, and no pointer, tick or key event changes the interaction state or
\* sends a request.
C30_ExitLeavesToolAtRest ==
    pointerObserver =>
      \A t \in ExitResults : AtRest(t) /\ KeysAreInert(t)

-----------------------------------------------------------------------------
(* C31 *)

\* C31: after any sequence of enabling and disabling the tool at most one
\* keyboard handler is registered, and one key X is handled exactly once: in
\* Idle with no move in progress it ends in Delete mode, in Delete mode it ends
\* in Idle.
C31_KeyPressHandledOnce ==
    /\ keyListeners <= 1
    /\ (pointerObserver /\ ~isMovingPoint) =>
         LET t == DispatchKey(Begin, "x", keyListeners)
         IN  /\ currentActionState = "None" => t.currentActionState = "Remove"
             /\ currentActionState = "Remove" => t.currentActionState = "None"

-----------------------------------------------------------------------------
(* Clearing the registry: ClearMeasurementData and ClearGUIObjects *)

\* the most plates the heap holds when ClearMeasurementData is called: a plate
\* whose entry was cleared keeps its meshes in the scene, and the next Create
\* broadcast for its id makes another plate
MaxPlates == 3

\* ClearMeasurementData: measurementsList.clear()
ClearMeasurementData(s) == [ s EXCEPT !.measurementsList = EmptyMap ]

\* the for-of loop of ClearGUIObjects over plateObjects.values()
RECURSIVE ClearPlates(_, _)
ClearPlates(s, rs) ==
    IF rs = {} THEN s
    ELSE LET r == CHOOSE q \in rs : TRUE
         IN  ClearPlates(ClearGUI(s, r), rs \ { r })

\* ClearGUIObjects: ClearGUI on every plate object, then plateObjects.clear()
ClearGUIObjects(s) ==
    [ ClearPlates(s, { s.plateObjects[i] : i \in DOMAIN s.plateObjects })
        EXCEPT !.plateObjects = EmptyMap ]

ClearMeasurementDataCall ==
    /\ Cardinality(DOMAIN heap) < MaxPlates
    /\ Apply(ClearMeasurementData(Begin))

ClearGUIObjectsCall == Apply(ClearGUIObjects(Begin))

\* inbound broadcasts and the two public clearing methods, in any order
NextClear ==
    \/ ReceiveCreate(ServerIds)
    \/ ReceiveUpdate(ServerIds)
    \/ ReceiveDelete(ServerIds)
    \/ ClearMeasurementDataCall
    \/ ClearGUIObjectsCall

SpecClear == Init /\ [][NextClear]_vars

-----------------------------------------------------------------------------
(* C32 *)

\* C32: measurementsList and plateObjects have the same key set and map each
\* key to the same object in every reachable state, for any sequence of inbound
\* broadcasts, ClearMeasurementData and ClearGUIObjects calls.
C32_RegistryMapsAgree ==
    /\ DOMAIN measurementsList = DOMAIN plateObjects
    /\ \A id \in DOMAIN measurementsList : measurementsList[id] = plateObjects[id]

-----------------------------------------------------------------------------
(* C33 *)

\* the ids named by the Delete requests of t
DeletedIds(t) ==
    { t.sent[k].measurement_instance_id :
        k \in { j \in DOMAIN t.sent : t.sent[j].type = "Delete" } }

\* the hovered id is none or the id of an entity in the Registry
HoverInRegistry ==
    hoveredMeasurementId = PlaceholderId \/ hoveredMeasurementId \in RegistryIds(St)

\* every Delete request a PointerDown or a key press sends from this state
\* names an id that is in the Registry now
DeletesNameRegistryIds ==
    /\ pointerObserver =>
         \A in \in PointerInputs(St) :
           DeletedIds(HandlePointerDown(Begin, in[1], in[2])) \subseteq RegistryIds(St)
    /\ \A key \in Keys :
         DeletedIds(DispatchKey(Begin, key, keyListeners)) \subseteq RegistryIds(St)

\* C33: every Delete request the client sends names an id that is in the
\* Registry at the moment of sending, and hoveredId is always none or the id of
\* an entity in the Registry, also after a Delete broadcast removed the hovered
\* entity.
C33_DeleteNamesRegistryId == HoverInRegistry /\ DeletesNameRegistryIds

-----------------------------------------------------------------------------
(* C34 *)

\* the Update broadcasts for id whose points can be decoded
DecodableUpdates(id) ==
    { m \in UpdateInputs({ id }) :
        /\ m.measurement_instance_id = id
        /\ ~DecodeThrows(m.startPoint) /\ ~DecodeThrows(m.endPoint) }

\* t maps every id to the object the Registry maps it to now, and the
\* selection of a move refers to the same object as now
SameIdentities(t) ==
    /\ t.measurementsList = measurementsList
    /\ t.plateObjects = plateObjects
    /\ t.selectedPlateObject = selectedPlateObject

\* a move in progress on entity id refers to the object the Registry holds
MoveRefersToRegistry(t, id) ==
    (t.isMovingPoint /\ t.selectedMeasurementId = id) =>
      /\ t.selectedPlateObject = t.measurementsList[id]
      /\ t.selectedPlateObject = t.plateObjects[id]

\* C34: an Update broadcast for an id in the Registry mutates the existing
\* entity in place: the Registry maps the id to the same object before and
\* after the handler, a move in progress on that entity still refers to the
\* Registry's object, and the stored points are the broadcast's decoded points.
C34_UpdateMutatesInPlace ==
    \A id \in RegistryIds(St) \cap DOMAIN plateObjects :
      /\ \A m \in UpdateInputs({ id }) :
           SameIdentities(ReceiveUpdateMeasurementRequestFromServer(Begin, m))
      /\ \A m \in DecodableUpdates(id) :
           LET t == ReceiveUpdateMeasurementRequestFromServer(Begin, m)
           IN  /\ MoveRefersToRegistry(t, id)
               /\ EntityPoints(t, id) = << DecodePoint(m.startPoint),
                                           DecodePoint(m.endPoint) >>

\* a move is in progress on an entity and an Update broadcast changes its points
C34_Witness ==
    /\ isMovingPoint
    /\ selectedMeasurementId \in RegistryIds(St)
    /\ \E m \in DecodableUpdates(selectedMeasurementId) :
         LET t == ReceiveUpdateMeasurementRequestFromServer(Begin, m)
         IN  /\ EntityPoints(t, selectedMeasurementId)
                  # EntityPoints(St, selectedMeasurementId)
             /\ t.selectedPlateObject = measurementsList[selectedMeasurementId]

-----------------------------------------------------------------------------
(* C35 *)

\* the endpoint of request u that the move in progress does not touch, and the
\* one the Registry stores now in the same role
UntouchedInRequest(u) ==
    IF selectedPointType = "start" THEN u.endPoint ELSE u.startPoint

UntouchedInRegistry(id) ==
    IF selectedPointType = "start" THEN Entity(St, id).endPoint
    ELSE Entity(St, id).startPoint

\* C35: completing a move of one endpoint never overwrites a confirmed change
\* to the other endpoint: the untouched endpoint carried in the Update request
\* is the value the Registry stores for that endpoint when the request is sent,
\* even when an Update broadcast for the entity was received during the move.
C35_UntouchedEndpointIsCurrent ==
    pointerObserver =>
      \A in \in PointerInputs(St) :
        LET t == HandlePointerUp(Begin, in[1], in[2])
        IN  \A i \in SentOfType(t, "Update") :
              LET u == t.sent[i]
              IN  u.measurement_instance_id \in RegistryIds(St) =>
                    UntouchedInRequest(u) = UntouchedInRegistry(u.measurement_instance_id)

-----------------------------------------------------------------------------
(* C36 *)

\* C36: while the tool is enabled, after every handled left-button PointerUp
\* neither a create-drag nor a point-move remains in progress, so every drag
\* or move that starts ends at the next handled PointerUp.
C36_PointerUpEndsDragAndMove ==
    pointerObserver =>
      \A pk \in Picks(St) :
        LET t == HandlePointerUp(Begin, TRUE, pk)
        IN  ~t.isDraggingMeasurement /\ ~t.isMovingPoint

-----------------------------------------------------------------------------
(* C37 *)

\* C37: at every handler boundary the three pieces of create-drag state agree:
\* a create-drag is in progress if and only if a start point is remembered,
\* and if and only if a create preview line exists.
C37_DragStateAgrees ==
    /\ isDraggingMeasurement <=> startPoint # NULL
    /\ isDraggingMeasurement <=> currentLine # NULL

\* a create-drag is in progress with its start point and its preview line
C37_Witness ==
    isDraggingMeasurement /\ startPoint # NULL /\ currentLine # NULL

-----------------------------------------------------------------------------
(* C38 *)

\* the selected plate object, the selected endpoint role and the fixed point
\* are all set
MoveSelectionSet ==
    /\ selectedPlateObject # NULL
    /\ selectedPointType # NoPointType
    /\ fixedPoint # NULL

\* C38: at every handler boundary the move state is consistent: MovingPoint is
\* true if and only if the selected plate object, the selected endpoint role
\* and the fixed point are all set; and when MovingPoint is false the selected
\* id is -1 and no move preview exists.
C38_MoveStateConsistent ==
    /\ isMovingPoint <=> MoveSelectionSet
    /\ ~isMovingPoint =>
         /\ selectedMeasurementId = PlaceholderId
         /\ movePreviewLine = NULL
         /\ movePreviewText = NULL

\* a move is in progress with its selection and its preview
C38_Witness ==
    isMovingPoint /\ MoveSelectionSet /\ movePreviewLine # NULL

====
